----------------------------- MODULE ConsoleSpec -----------------------------
(***************************************************************************)
(* What the console promises: input is edited a line at a time, whole      *)
(* lines queue up for readers, and output leaves in the order in which     *)
(* write() queued it.  There are no indices, locks or interrupts here.     *)
(***************************************************************************)
EXTENDS Naturals, Sequences, SequencesExt

CONSTANTS
    Readers,
    INPUT_BUF, UART_TX_BUF_SIZE,
    N               \* what a read() asks for

VARIABLES
    ready, line,    \* input that may be read, and the line being typed
    got, reading,   \* what each reader's last read() has delivered, who is in read()
    txq, thr        \* output not yet sent, and what was sent last

specvars == <<ready, line, got, reading, txq, thr>>

Ends == {"nl", "D"}

SpecInit ==
    /\ ready = <<>> /\ line \in {[i \in 1 .. k |-> "a"] : k \in 0 .. INPUT_BUF - 1}
    /\ txq = <<>> /\ thr = <<"none">>
    /\ got = [p \in Readers |-> <<>>] /\ reading = {}

\* A character is typed: the input holds at most INPUT_BUF, and a line is readable once
\* it is ended or nothing more would fit.
Type(c) ==
    LET l == Append(line, c) IN
    /\ Len(ready \o line) < INPUT_BUF
    /\ IF c \in Ends \/ Len(ready \o l) = INPUT_BUF
       THEN ready' = ready \o l /\ line' = <<>>
       ELSE line' = l /\ UNCHANGED ready
    /\ thr' = <<"echo">> /\ UNCHANGED <<got, reading, txq>>

\* Editing reaches no further back than the line being typed.
Edit ==
    /\ line # <<>> /\ line' \in {Front(line), <<>>}
    /\ thr' = <<"echo">> /\ UNCHANGED <<ready, got, reading, txq>>

Call(p) ==
    /\ p \notin reading /\ reading' = reading \cup {p}
    /\ got' = [got EXCEPT ![p] = <<>>]
    /\ UNCHANGED <<ready, line, txq, thr>>

\* A read() takes input up to the end of a line, up to N characters.  An end of file is
\* a read() of nothing: behind other input it stays for the next read().
Reach(p) ==
    LET room == N - Len(got[p])
        ends == {i \in 1 .. Len(ready) : ready[i] \in Ends}
    IN  {i \in 0 .. Len(ready) : i <= room /\ \A j \in ends : j >= i}

Read(p) ==
    LET k == CHOOSE i \in Reach(p) : \A j \in Reach(p) : j <= i
        eof == k > 0 /\ ready[k] = "D"
        in == SubSeq(ready, 1, IF eof THEN k - 1 ELSE k)
        all == got[p] \o in
    IN  /\ p \in reading
        /\ got' = [got EXCEPT ![p] = all]
        /\ ready' = SubSeq(ready, 1 + (IF eof /\ all # <<>> THEN k - 1 ELSE k), Len(ready))
        /\ reading' = IF eof \/ Len(all) = N \/ (k > 0 /\ ready[k] = "nl")
                      THEN reading \ {p} ELSE reading
        /\ UNCHANGED <<line, txq, thr>>

\* A read() whose buffer ends early loses the character that does not fit in it; one
\* that is killed loses all it has taken, when no line is complete.
Cut(p) ==
    /\ p \in reading /\ reading' = reading \ {p}
    /\ \E k \in Reach(p) :
          \/ /\ k > 0 /\ ready[k] # "D"
             /\ got' = [got EXCEPT ![p] = @ \o SubSeq(ready, 1, k - 1)]
             /\ ready' = SubSeq(ready, k + 1, Len(ready))
          \/ /\ k = Len(ready) /\ ~ \E i \in 1 .. k : ready[i] \in Ends
             /\ got' = [got EXCEPT ![p] = @ \o ready] /\ ready' = <<>>
    /\ UNCHANGED <<line, txq, thr>>

\* k characters of q leave.
Sent(q, k) == txq' = SubSeq(q, k + 1, Len(q)) /\ thr' = IF k = 0 THEN thr ELSE q[k]

Write(c) ==
    /\ Len(txq) < UART_TX_BUF_SIZE
    /\ \E k \in 0 .. Len(txq) + 1 : Sent(Append(txq, c), k)
    /\ UNCHANGED <<ready, line, got, reading>>

Send ==
    /\ \E k \in 1 .. Len(txq) : Sent(txq, k)
    /\ UNCHANGED <<ready, line, got, reading>>

SpecNext(Chars, Outs) ==
    \/ \E c \in Chars : Type(c)
    \/ Edit
    \/ \E p \in Readers : Call(p) \/ Read(p) \/ Cut(p)
    \/ \E c \in Outs : Write(c)
    \/ Send
==============================================================================
