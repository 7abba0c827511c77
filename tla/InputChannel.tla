---------------------------- MODULE InputChannel ----------------------------
(***************************************************************************)
(* What a terminal promises about what is typed into it: an input goes to  *)
(* the server at once if none before it waits, or waits while there is     *)
(* room, or is lost; those that wait go together and in order, or are      *)
(* given up together.                                                      *)
(***************************************************************************)
EXTENDS Naturals, Sequences

CONSTANT Size   \* inputs that may wait

VARIABLES
    typed,      \* number of inputs so far
    sent,       \* what the server gets
    waiting

channelVars == <<typed, sent, waiting>>

ChannelInit == typed = 0 /\ sent = <<>> /\ waiting = <<>>

Input ==
    /\ typed' = typed + 1
    /\ \/ waiting = <<>> /\ sent' = Append(sent, typed') /\ UNCHANGED waiting
       \/ Len(waiting) < Size /\ waiting' = Append(waiting, typed') /\ UNCHANGED sent
       \/ UNCHANGED <<sent, waiting>>

SendWaiting == sent' = sent \o waiting /\ waiting' = <<>> /\ UNCHANGED typed

GiveUp == waiting' = <<>> /\ UNCHANGED <<typed, sent>>

ChannelNext == Input \/ SendWaiting \/ GiveUp

ChannelSpec == ChannelInit /\ [][ChannelNext]_channelVars
=============================================================================
