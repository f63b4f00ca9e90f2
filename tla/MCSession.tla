------------------------------ MODULE MCSession ------------------------------
(* Small instances of Session. *)
EXTENDS Session

\* Two suites that share the name of a test.
TwoSuites == <<[name |-> "syscalls", tests |-> {"open", "read"}],
               [name |-> "fs", tests |-> {"read"}]>>

OneSuite == <<[name |-> "syscalls", tests |-> {"open", "read"}]>>

=============================================================================
