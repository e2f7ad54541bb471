--------------------------- MODULE RuntimeContext ---------------------------
(***************************************************************************)
(* The thread-local context stack of the OpenTelemetry C++ API             *)
(* (RuntimeContext with ThreadLocalContextStorage), which the web server   *)
(* agent uses to find the parent of every span it starts.  The API is not  *)
(* part of the repository; the operators follow the calls that             *)
(* src/core/sdkwrapper makes to it.                                        *)
(*                                                                         *)
(* A stack is a sequence of contexts, its top at the end.  A token holds   *)
(* the context that was attached, and two contexts are equal only if they  *)
(* are the same object: a context derived from another by setting its span *)
(* is a new one.                                                           *)
(***************************************************************************)
EXTENDS Naturals, Sequences

\* The context GetCurrent returns when nothing is attached.
EmptyContext == <<"empty">>

Top(stk) == IF stk = <<>> THEN EmptyContext ELSE stk[Len(stk)]

Attach(stk, ctx) == Append(stk, ctx)

Occurrences(stk, ctx) == {i \in 1..Len(stk) : stk[i] = ctx}

LastOf(S) == CHOOSE i \in S : \A j \in S : j <= i

\* Detach pops down to and including the topmost occurrence of the context
\* the token holds, and leaves a stack that does not hold it alone.
Detach(stk, ctx) ==
  IF Occurrences(stk, ctx) = {}
  THEN stk
  ELSE SubSeq(stk, 1, LastOf(Occurrences(stk, ctx)) - 1)
=============================================================================
