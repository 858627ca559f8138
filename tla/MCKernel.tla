------------------------------- MODULE MCKernel -------------------------------
(* Small instances of Kernel for TLC.  exec starts every child redirected in
   one of them and none in the other, where fork takes part as well: fork and
   an exec without redirections lead to the same states. *)
EXTENDS Kernel

CoreCalls == {"yield", "exec", "exit", "fault", "kill", "wait", "waitpid",
              "readchar", "map_fb", "open", "close"}
LiveCalls == {"fork", "exec", "exit", "waitpid", "readchar"}
NoRedirect == {<<0, 0>>}
Redirected == {<<2, 0>>}
=============================================================================
