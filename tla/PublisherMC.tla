---------------------------- MODULE PublisherMC -----------------------------
(* The clock settings of the model-checked instance of Publisher.          *)
EXTENDS Publisher

\* A large step back, a small one, and one forwards.
BackAndForth == {-20, -2, 2}
=============================================================================
