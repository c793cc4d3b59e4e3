------------------------------ MODULE Signals ------------------------------
(***************************************************************************)
(* Signals of one process: kill(), handling_signals(), usersignal(),       *)
(* sigprocmask(), sigaction() and sigret() of kernel/proc.c, the points of *)
(* kernel/trap.c that call them, and what kernel/exec.c does to signal     *)
(* state.  The threads of the process share everything but their trap      *)
(* frames; Killers are threads of other processes that call kill().        *)
(*                                                                         *)
(* p->pendingSignals is updated with |= under p->lock by kill() and with   *)
(* ^= without a lock by handling_signals(): each update is a load and a    *)
(* store, in two steps.  A thread's trap frame is reduced to what user     *)
(* code it resumes (epc) and whether a0 holds what that code left there.   *)
(***************************************************************************)
EXTENDS Integers

CONSTANTS
    Threads,
    Killers,
    UserSigs,           \* signal numbers other than SIGKILL, SIGSTOP, SIGCONT
    Masks,              \* values of p->signalMask that programs use
    HandlerMasks,       \* values of sigaction.sigmask that programs use
    Handlers,           \* what programs install: of SIG_DFL, SIG_IGN, "user"
    MaxKills,           \* bound: kill() calls from outside
    MaxActions,         \* bound: sigaction() and sigprocmask() calls
    Catchable,          \* signals programs call sigaction() for
    Execs,              \* where programs call exec(): of "program", "handler"
    BadPointers,        \* programs pass sigaction() addresses that are not mapped
    None

SIGKILL == 9
SIGSTOP == 17
SIGCONT == 19
Sigs == UserSigs \cup {SIGKILL, SIGSTOP, SIGCONT}

ASSUME SignalsAssumption ==
    /\ UserSigs \subseteq 0 .. 31
    /\ Masks \subseteq SUBSET Sigs /\ HandlerMasks \subseteq SUBSET Sigs
    /\ Handlers \subseteq {"SIG_DFL", "SIG_IGN", "user"}
    /\ MaxKills \in Nat /\ MaxActions \in Nat
    /\ Catchable \subseteq Sigs \ {SIGKILL, SIGSTOP}
    /\ Execs \subseteq {"program", "handler"}
    /\ BadPointers \in BOOLEAN
    /\ None \notin Threads \cup Killers

VARIABLES
    pendingSignals, signalMask, signalHandlers, maskHandlers,
    signal_mask_backup, ignore_signals, stopped, killed,    \* of struct proc
    plock,      \* who holds p->lock
    frame,      \* frame[t]: t->trapframe
    backup,     \* backup[t]: t->UserTrapFrameBackup
    pc,         \* where each thread and each killer is
    sig,        \* sig[a]: the loop variable of handling_signals(), or the
                \* argument of kill()
    reg,        \* reg[a]: pendingSignals as loaded by |= or ^=
    mainMask,   \* history: the mask the program set outside handlers
    image,      \* history: exec() calls so far
    setups,     \* history: setups[t] counts the handlers set up for t in a pass
                \* of handling_signals(); 2 stays, until exec()
    kills, actions      \* calls that may still be made

procVars == <<signalMask, signalHandlers, maskHandlers, signal_mask_backup,
              ignore_signals, stopped, killed>>
vars == <<procVars, pendingSignals, plock, frame, backup, pc, sig, reg,
          mainMask, setups, image, kills, actions>>

Actors == Threads \cup Killers
MAIN == -1                      \* epc in the program; in a handler, its signal
Main == [epc |-> MAIN, a0 |-> "own"]
Frames == [epc : {MAIN} \cup Sigs, a0 : {"own", "signum", "zero"}]
End == 32                                       \* SIGNALS_SIZE

TypeOK ==
    /\ pendingSignals \subseteq Sigs /\ signalMask \subseteq Sigs
    /\ signal_mask_backup \subseteq Sigs /\ mainMask \subseteq Sigs
    /\ signalHandlers \in [Sigs -> {"SIG_DFL", "SIG_IGN", "user"}]
    /\ maskHandlers \in [Sigs -> SUBSET Sigs]
    /\ ignore_signals \in BOOLEAN /\ stopped \in BOOLEAN /\ killed \in BOOLEAN
    /\ plock \in Actors \cup {None}
    /\ frame \in [Threads -> Frames]
    /\ backup \in [Threads -> Frames]
    /\ pc \in [Actors -> {"user", "handling", "stopped", "cont_load", "cont_store",
                          "scan", "deliver", "usersignal", "load", "store",
                          "kill", "kill_store", "idle", "exited"}]
    /\ sig \in [Actors -> Sigs \cup {End}]
    /\ reg \in [Actors -> SUBSET Sigs]
    /\ image \in 0 .. MaxActions /\ setups \in [Threads -> 0 .. 2]
    /\ kills \in 0 .. MaxKills /\ actions \in 0 .. MaxActions

\* A process as fork() of a fresh one leaves it.
Init ==
    /\ pendingSignals = {} /\ signalMask = {} /\ signal_mask_backup = {}
    /\ signalHandlers = [s \in Sigs |-> "SIG_DFL"]
    /\ maskHandlers = [s \in Sigs |-> {}]
    /\ ignore_signals = FALSE /\ stopped = FALSE /\ killed = FALSE
    /\ plock = None
    /\ frame = [t \in Threads |-> Main]
    /\ backup = [t \in Threads |-> Main]
    /\ pc = [a \in Actors |-> IF a \in Threads THEN "user" ELSE "idle"]
    /\ sig = [a \in Actors |-> End]
    /\ reg = [a \in Actors |-> {}]
    /\ mainMask = {} /\ image = 0 /\ setups = [t \in Threads |-> 0]
    /\ kills = MaxKills /\ actions = MaxActions

Goto(a, from, to) == pc[a] = from /\ pc' = [pc EXCEPT ![a] = to]

\* Fault: the loop stops at numbers that are no signal of the model.
NextSig_plus(s) == s + 1

\* The next value of the loop variable with a signal of the model.
NextSig(s) ==
    LET later == {x \in Sigs : x > s} IN
    IF later = {} THEN End ELSE CHOOSE x \in later : \A y \in later : x <= y

-----------------------------------------------------------------------------
(* kill() *)

\* Another process calls kill(pid, s).
Send(k) ==
    /\ kills > 0
    /\ kills' = kills - 1
    /\ Goto(k, "idle", "kill")
    /\ \E s \in Sigs : sig' = [sig EXCEPT ![k] = s]
    /\ UNCHANGED <<procVars, pendingSignals, plock, frame, backup, reg, mainMask, setups, image, actions>>

\* In handling_signals() the call is kill(p->pid, SIGKILL).
KillArg(a) == IF a \in Threads THEN SIGKILL ELSE sig[a]

KillLoad(a) ==
    /\ Goto(a, "kill", "kill_store")
    /\ plock = None /\ plock' = a
    /\ killed' = (killed \/ KillArg(a) = SIGKILL)
    /\ reg' = [reg EXCEPT ![a] = pendingSignals]
    /\ UNCHANGED <<signalMask, signalHandlers, maskHandlers, signal_mask_backup,
                   ignore_signals, stopped, pendingSignals, frame, backup, sig,
                   mainMask, setups, image, kills, actions>>

KillStore(a) ==
    /\ Goto(a, "kill_store", IF a \in Threads THEN "load" ELSE "idle")
    /\ pendingSignals' = reg[a] \cup {KillArg(a)}
    /\ plock' = None
    /\ reg' = [reg EXCEPT ![a] = {}]
    /\ sig' = IF a \in Threads THEN sig ELSE [sig EXCEPT ![a] = End]
    /\ UNCHANGED <<procVars, frame, backup, mainMask, setups, image, kills, actions>>

kill(a) == KillLoad(a) \/ KillStore(a)

-----------------------------------------------------------------------------
(* handling_signals(), called by usertrapret() *)

\* Fault: p->ignore_signals is not looked at.
Enter_no_flag(t) ==
    /\ Goto(t, "handling",
            IF signalMask = Sigs THEN "user"
            ELSE IF stopped /\ SIGSTOP \notin signalMask THEN "stopped" ELSE "scan")
    /\ sig' = [sig EXCEPT ![t] = IF pc'[t] = "user" THEN End ELSE NextSig(-1)]
    /\ setups' = [setups EXCEPT ![t] = IF @ = 2 THEN 2 ELSE 0]
    /\ UNCHANGED <<procVars, pendingSignals, plock, frame, backup, reg, mainMask,
                   image, kills, actions>>

Enter(t) ==
    /\ Goto(t, "handling",
            IF signalMask = Sigs \/ ignore_signals THEN "user"
            ELSE IF stopped /\ SIGSTOP \notin signalMask THEN "stopped" ELSE "scan")
    /\ sig' = [sig EXCEPT ![t] = IF pc'[t] = "user" THEN End ELSE NextSig(-1)]
    /\ setups' = [setups EXCEPT ![t] = IF @ = 2 THEN 2 ELSE 0]
    /\ UNCHANGED <<procVars, pendingSignals, plock, frame, backup, reg, mainMask,
                   image, kills, actions>>

\* Fault: the loop tests the wrong bit.
Continue_wrong_bit(t) ==
    /\ Goto(t, "stopped", "cont_load")
    /\ SIGSTOP \in pendingSignals
    /\ stopped' = FALSE
    /\ UNCHANGED <<signalMask, signalHandlers, maskHandlers, signal_mask_backup,
                   ignore_signals, killed, pendingSignals, plock, frame, backup, sig,
                   reg, mainMask, setups, image, kills, actions>>

\* The loop around yield() ends when SIGCONT is pending.
Continue(t) ==
    /\ Goto(t, "stopped", "cont_load")
    /\ SIGCONT \in pendingSignals
    /\ stopped' = FALSE
    /\ UNCHANGED <<signalMask, signalHandlers, maskHandlers, signal_mask_backup,
                   ignore_signals, killed, pendingSignals, plock, frame, backup, sig,
                   reg, mainMask, setups, image, kills, actions>>

Load(t) ==                              \* of pendingSignals ^= ...
    /\ Goto(t, "load", "store") \/ Goto(t, "cont_load", "cont_store")
    /\ reg' = [reg EXCEPT ![t] = pendingSignals]
    /\ UNCHANGED <<procVars, pendingSignals, plock, frame, backup, sig, mainMask,
                   setups, image, kills, actions>>

Toggle(set, s) == (set \ {s}) \cup ({s} \ set)

ContStore(t) ==
    /\ Goto(t, "cont_store", "scan")
    /\ pendingSignals' = Toggle(reg[t], SIGCONT)
    /\ reg' = [reg EXCEPT ![t] = {}]
    /\ UNCHANGED <<procVars, plock, frame, backup, sig, mainMask, setups, image, kills, actions>>

Scan(t) ==
    /\ IF sig[t] = End
       THEN Goto(t, "scan", "user") /\ UNCHANGED sig
       ELSE IF /\ sig[t] \in pendingSignals \ signalMask
               /\ signalHandlers[sig[t]] # "SIG_IGN"
            THEN Goto(t, "scan", "deliver") /\ UNCHANGED sig
            ELSE Goto(t, "scan", "scan") /\ sig' = [sig EXCEPT ![t] = NextSig(@)]
    /\ UNCHANGED <<procVars, pendingSignals, plock, frame, backup, reg, mainMask,
                   setups, image, kills, actions>>

DefaultAction(t) ==
    /\ Goto(t, "deliver", IF sig[t] \in {SIGSTOP, SIGCONT} THEN "load" ELSE "kill")
    /\ signalHandlers[sig[t]] = "SIG_DFL"
    /\ stopped' = IF sig[t] \in {SIGSTOP, SIGCONT} THEN sig[t] = SIGSTOP ELSE stopped
    /\ UNCHANGED <<signalMask, signalHandlers, maskHandlers, signal_mask_backup,
                   ignore_signals, killed, pendingSignals, plock, frame, backup, sig,
                   reg, mainMask, setups, image, kills, actions>>

\* usersignal(): the mask is saved, then everything else is set up.
BackupMask(t) ==
    /\ Goto(t, "deliver", "usersignal")
    /\ signalHandlers[sig[t]] # "SIG_DFL"
    /\ signal_mask_backup' = signalMask
    /\ UNCHANGED <<signalMask, signalHandlers, maskHandlers, ignore_signals, stopped,
                   killed, pendingSignals, plock, frame, backup, sig, reg, mainMask,
                   setups, image, kills, actions>>

usersignal(t) ==
    /\ Goto(t, "usersignal", "load")
    /\ signalMask' = maskHandlers[sig[t]]
    /\ ignore_signals' = TRUE
    /\ backup' = [backup EXCEPT ![t] = frame[t]]
    /\ frame' = [frame EXCEPT ![t] = [epc |-> sig[t], a0 |-> "signum"]]
    /\ setups' = [setups EXCEPT ![t] = IF @ = 2 THEN 2 ELSE @ + 1]
    /\ UNCHANGED <<signalHandlers, maskHandlers, signal_mask_backup, stopped, killed,
                   pendingSignals, plock, sig, reg, mainMask, image, kills, actions>>

\* Fault: the bit stays on.
Store_keeps_bit(t) ==
    /\ Goto(t, "store", "scan")
    /\ sig' = [sig EXCEPT ![t] = NextSig(@)]
    /\ reg' = [reg EXCEPT ![t] = {}]
    /\ UNCHANGED <<procVars, pendingSignals, plock, frame, backup, mainMask, setups, image, kills, actions>>

Store(t) ==
    /\ Goto(t, "store", "scan")
    /\ pendingSignals' = Toggle(reg[t], sig[t])
    /\ sig' = [sig EXCEPT ![t] = NextSig(@)]
    /\ reg' = [reg EXCEPT ![t] = {}]
    /\ UNCHANGED <<procVars, plock, frame, backup, mainMask, setups, image, kills, actions>>

handling_signals(t) ==
    \/ Enter(t) \/ Continue(t) \/ Load(t) \/ ContStore(t)
    \/ Scan(t) \/ DefaultAction(t) \/ BackupMask(t) \/ usersignal(t) \/ Store(t)

-----------------------------------------------------------------------------
(* Traps from user space *)

\* Fault: a process in a handler does not exit.
Exit_not_in_handler(t) ==
    /\ pc[t] = "user"
    /\ killed /\ frame[t].epc = MAIN
    /\ pc' = [a \in Actors |-> IF a \in Threads THEN "exited" ELSE pc[a]]
    /\ UNCHANGED <<procVars, pendingSignals, plock, frame, backup, sig, reg, mainMask,
                   setups, image, kills, actions>>

\* usertrap() sees p->killed and calls exit(-1), which ends every thread.
Exit(t) ==
    /\ pc[t] = "user"
    /\ killed
    /\ pc' = [a \in Actors |-> IF a \in Threads THEN "exited" ELSE pc[a]]
    /\ UNCHANGED <<procVars, pendingSignals, plock, frame, backup, sig, reg, mainMask,
                   setups, image, kills, actions>>

Trap(t) == ~ killed /\ Goto(t, "user", "handling")

Timer(t) ==
    /\ Trap(t)
    /\ UNCHANGED <<procVars, pendingSignals, plock, frame, backup, sig, reg, mainMask,
                   setups, image, kills, actions>>

sigprocmask(t) ==
    /\ Trap(t)
    /\ actions > 0 /\ actions' = actions - 1
    /\ \E m \in Masks :
          /\ signalMask' = m
          /\ mainMask' = IF frame[t].epc = MAIN THEN m ELSE mainMask
    /\ UNCHANGED <<signalHandlers, maskHandlers, signal_mask_backup, ignore_signals,
                   stopped, killed, pendingSignals, plock, frame, backup, sig, reg,
                   setups, image, kills>>

sigaction(t) ==
    /\ Trap(t)
    /\ actions > 0 /\ actions' = actions - 1
    /\ plock = None
    /\ \E s \in Catchable, h \in Handlers, m \in HandlerMasks :
          /\ signalHandlers' = [signalHandlers EXCEPT ![s] = h]
          /\ maskHandlers' = [maskHandlers EXCEPT ![s] = m]
    /\ UNCHANGED <<signalMask, signal_mask_backup, ignore_signals, stopped, killed,
                   pendingSignals, plock, frame, backup, sig, reg, mainMask, setups, image, kills>>

\* copyout() or copyin() fails: the return leaves p->lock held.
sigaction_fails(t) ==
    /\ BadPointers
    /\ Trap(t)
    /\ actions > 0 /\ actions' = actions - 1
    /\ plock = None /\ plock' = t
    /\ UNCHANGED <<procVars, pendingSignals, frame, backup, sig, reg, mainMask, setups, image, kills>>

\* Fault: the flag is not reset.
sigret_keeps_flag(t) ==
    /\ Trap(t)
    /\ frame[t].epc # MAIN
    /\ frame' = [frame EXCEPT ![t] = [backup[t] EXCEPT !.a0 = "zero"]]
    /\ signalMask' = signal_mask_backup
    /\ UNCHANGED <<signalHandlers, maskHandlers, signal_mask_backup, ignore_signals, stopped, killed,
                   pendingSignals, plock, backup, sig, reg, mainMask, setups, image, kills, actions>>

\* Fault: the mask is not restored.
sigret_keeps_mask(t) ==
    /\ Trap(t)
    /\ frame[t].epc # MAIN
    /\ frame' = [frame EXCEPT ![t] = [backup[t] EXCEPT !.a0 = "zero"]]
    /\ ignore_signals' = FALSE
    /\ UNCHANGED <<signalMask, signalHandlers, maskHandlers, signal_mask_backup, stopped, killed,
                   pendingSignals, plock, backup, sig, reg, mainMask, setups, image, kills, actions>>

\* The handler returned: sigret(), then syscall() stores sys_sigret()'s result
\* into a0.
sigret(t) ==
    /\ Trap(t)
    /\ frame[t].epc # MAIN
    /\ frame' = [frame EXCEPT ![t] = [backup[t] EXCEPT !.a0 = "zero"]]
    /\ signalMask' = signal_mask_backup
    /\ ignore_signals' = FALSE
    /\ UNCHANGED <<signalHandlers, maskHandlers, signal_mask_backup, stopped, killed,
                   pendingSignals, plock, backup, sig, reg, mainMask, setups, image, kills, actions>>

\* exec() starts a new program.  Only maskHandlers and signalMask are reset.
exec(t) ==
    /\ Trap(t)
    /\ actions > 0 /\ actions' = actions - 1
    /\ (IF frame[t].epc = MAIN THEN "program" ELSE "handler") \in Execs
    /\ frame' = [frame EXCEPT ![t] = Main]
    /\ maskHandlers' = [s \in Sigs |-> IF signalHandlers[s] = "user" THEN {}
                                       ELSE maskHandlers[s]]
    /\ signalMask' = {}
    /\ mainMask' = {} /\ image' = image + 1
    /\ setups' = [setups EXCEPT ![t] = 0]
    /\ UNCHANGED <<signalHandlers, signal_mask_backup, ignore_signals, stopped, killed,
                   pendingSignals, plock, backup, sig, reg, kills>>

Next ==
    \/ \E t \in Threads :
          \/ handling_signals(t)
          \/ Exit(t) \/ Timer(t) \/ sigret(t)
          \/ sigprocmask(t) \/ sigaction(t) \/ sigaction_fails(t) \/ exec(t)
    \/ \E k \in Killers : Send(k)
    \/ \E a \in Actors : kill(a)

Spec == Init /\ [][Next]_vars

\* The scheduler runs every thread; the timer interrupts user code; a handler
\* eventually returns.
Fairness ==
    /\ \A t \in Threads : /\ WF_vars(handling_signals(t))
                          /\ WF_vars(Exit(t) \/ Timer(t))
                          /\ SF_vars(sigret(t))
    /\ \A a \in Actors : WF_vars(kill(a))

FairSpec == Spec /\ Fairness
-----------------------------------------------------------------------------
\* The interrupted program is not lost: whenever a handler runs, the frame that
\* sigret() will restore is the frame of the program, not of another handler.
\* handling_signals() itself breaks this in one way: the loop goes on after it
\* set up a handler, and when a second caught signal is pending it sets up that
\* one on top, with the single backup.  Any other way is excluded: no trap, no
\* signal and no mask makes a pass set up a handler over a running one.
BackupIsProgram ==
    \A t \in Threads : frame[t].epc # MAIN => backup[t].epc = MAIN \/ setups[t] = 2

\* A pass of handling_signals() sets up one handler at most.
OneHandlerPerPass == \A t \in Threads : setups[t] < 2

\* Outside handlers the process has the mask its program asked for, whatever
\* handlers ran in between.
MaskRestored ==
    \A t \in Threads :
        pc[t] = "user" /\ frame[t].epc = MAIN => signalMask = mainMask

\* p->ignore_signals is set while a thread runs a handler, so that further
\* signals stay away, and only while a handler is running or being set up:
\* no path leaves the process deaf to signals.
FlagTracksHandling ==
    /\ ignore_signals => \E t \in Threads : frame[t].epc # MAIN
    /\ \A t \in Threads : pc[t] = "user" /\ frame[t].epc # MAIN => ignore_signals

\* No thread is in user space holding p->lock: the next acquire() of that lock
\* on the same CPU would be panic("acquire").
NoLockInUserSpace == \A t \in Threads : pc[t] = "user" => plock # t

\* The value that interrupted code had in a0 is there again after the handler.
A0Restored ==
    \A t \in Threads : pc[t] = "user" /\ frame[t].epc = MAIN => frame[t].a0 = "own"

\* pendingSignals ^= (1 << sig) turns the bit of the delivered signal off.
BitTurnedOff == [][\A t \in Threads : Store(t) => sig[t] \notin pendingSignals']_vars

\* pendingSignals ^= (1 << sig) touches no other bit.
OtherBitsKept ==
    [][\A t \in Threads :
          Store(t) => pendingSignals' \ {sig[t]} = pendingSignals \ {sig[t]}]_vars

\* exec() returns custom handlers to the default.
ExecResetsHandlers ==
    [][image' # image => \A s \in Sigs : signalHandlers'[s] # "user"]_vars

\* A killed process exits.
KilledExits == killed ~> \A t \in Threads : pc[t] = "exited"

\* sigaction() failed and left p->lock held: whoever needs it next waits.
LockLeaked == \E t \in Threads : plock = t /\ pc[t] # "kill_store"

\* A killed process exits, unless it is stopped or an error return of
\* sigaction() kept p->lock.
KilledExitsUnlessStopped ==
    killed ~> LockLeaked \/ \A t \in Threads : pc[t] \in {"exited", "stopped"}

\* A pending signal does not stay undelivered: it is consumed, or the process
\* blocks, ignores or cannot take it (stopped, exited, p->lock lost by
\* sigaction()).
PendingConsumed ==
    \A s \in Sigs :
        s \in pendingSignals ~>
            \/ s \notin pendingSignals
            \/ s \in signalMask \/ signalMask = Sigs \/ signalHandlers[s] = "SIG_IGN"
            \/ LockLeaked
            \/ \A t \in Threads : pc[t] \in {"exited", "stopped"}

\* SIGCONT ends the stop: a process waiting in the stop loop resumes.
ContResumes ==
    \A t \in Threads :
        pc[t] = "stopped" /\ SIGCONT \in pendingSignals ~> pc[t] # "stopped"
=============================================================================
