--------------------------- MODULE MessageChannel ---------------------------
(***************************************************************************)
(* What a stream of delimited messages promises: a reader gets the         *)
(* messages that were dumped, whole, in their order, and all of them.      *)
(***************************************************************************)
EXTENDS Sequences, Naturals

CONSTANT Messages

VARIABLES sent,  \* the messages that were dumped in full
          got    \* the messages that were loaded

channelVars == <<sent, got>>

ChannelInit == sent = <<>> /\ got = <<>>

Send == \E m \in Messages : sent' = Append(sent, m) /\ UNCHANGED got

Receive ==
  /\ Len(got) < Len(sent)
  /\ got' = Append(got, sent[Len(got) + 1])
  /\ UNCHANGED sent

ChannelSpec == ChannelInit /\ [][Send \/ Receive]_channelVars /\ WF_channelVars(Receive)
=============================================================================
