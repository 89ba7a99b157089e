------------------------------ MODULE Mailbox ------------------------------
(***************************************************************************)
(* What an EventLoop promises to the threads that post to it: a FIFO       *)
(* mailbox.  A task that was accepted is run after every task accepted     *)
(* before it, at most once, and is lost only when a functor of the same    *)
(* batch lets an exception escape.                                         *)
(***************************************************************************)
EXTENDS Naturals, Sequences

CONSTANT Task

VARIABLES
  mail,   \* accepted tasks that have not run yet, oldest first
  ran     \* tasks that have run, in the order they ran

mailVars == <<mail, ran>>

MailInit == mail = <<>> /\ ran = <<>>

Accept(t) ==
  /\ mail' = Append(mail, t)
  /\ UNCHANGED ran

Run ==
  /\ mail # <<>>
  /\ mail' = Tail(mail)
  /\ ran' = Append(ran, Head(mail))

\* An exception ends a batch: its k oldest tasks leave the mailbox, and of
\* these at most the first one has run (it is the one that threw).
Fail ==
  \E k \in 1..Len(mail) :
    /\ mail' = SubSeq(mail, k + 1, Len(mail))
    /\ ran' \in {ran, Append(ran, Head(mail))}

MailNext == (\E t \in Task : Accept(t)) \/ Run \/ Fail

MailSpec == MailInit /\ [][MailNext]_mailVars
=============================================================================
