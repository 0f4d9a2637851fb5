----------------------------- MODULE MsgChannel -----------------------------
(***************************************************************************)
(* What the message queues of the framework promise, whatever their lists, *)
(* flags and threads: of the messages one source pushes, the receiver gets *)
(* a prefix, in the order of the pushes, none twice and none invented.     *)
(* The message a source pushes as its n-th is written n.  (That what was   *)
(* accepted is handed over at all is a liveness property of each queue.)   *)
(***************************************************************************)
EXTENDS Naturals, Sequences

CONSTANT Source    \* what order is promised for (a generator, a pair, ...)

VARIABLES sent,    \* sent[s]: how many messages the queue accepted from s
          got,     \* got[s]: the messages of s handed to the receiver
          closed   \* the queue was told to close

chanVars == <<sent, got, closed>>

ChanTypeOK ==
    /\ sent \in [Source -> Nat]
    /\ got \in [Source -> Seq(Nat)]
    /\ closed \in BOOLEAN

ChanInit ==
    /\ sent = [s \in Source |-> 0]
    /\ got = [s \in Source |-> <<>>]
    /\ closed = FALSE

FirstMessages(n) == [i \in 1 .. n |-> i]

(* A push of some messages.  A push that passed its test of _isWorking     *)
(* before the close is still accepted after it.                            *)
Accept(s) ==
    /\ sent' = [sent EXCEPT ![s] = sent'[s]]
    /\ sent'[s] > sent[s]
    /\ UNCHANGED <<got, closed>>

(* The receiver takes more of what was accepted, always from the front.    *)
Deliver ==
    /\ got' \in [Source -> Seq(Nat)]
    /\ \A s \in Source : /\ Len(got'[s]) \in Len(got[s]) .. sent[s]
                          /\ got'[s] = FirstMessages(Len(got'[s]))
    /\ UNCHANGED <<sent, closed>>

CloseChan ==
    /\ ~closed
    /\ closed' = TRUE
    /\ UNCHANGED <<sent, got>>

ChanNext == (\E s \in Source : Accept(s)) \/ Deliver \/ CloseChan

ChanSpec == ChanInit /\ [][ChanNext]_chanVars
=============================================================================
