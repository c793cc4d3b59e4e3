----------------------------- MODULE MCSignals -----------------------------
(* Masks that programs of the models use.                                  *)
EXTENDS Signals

\* What a program may block: nothing, SIGSTOP, or every signal.
SomeMasks == {{}, {SIGSTOP}, Sigs}
\* What a handler runs with: nothing blocked, or every signal.
NoneOrAll == {{}, Sigs}
NoMask == {{}}
=============================================================================
