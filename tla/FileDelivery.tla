---------------------------- MODULE FileDelivery ----------------------------
(***************************************************************************)
(* What a peer-to-peer transfer promises: the chunks of the sender's files *)
(* are received one after the other, and once all are there each file is   *)
(* handed to the user, once, in order and with every chunk in its place,   *)
(* or reported as one that the store would not give back.  It may stop     *)
(* anywhere.                                                               *)
(***************************************************************************)
EXTENDS Integers, Sequences

CONSTANTS NumFiles, Chunks

VARIABLES
  acked,    \* of each file, how many chunks the receiver has taken
  handed    \* what became of the files, in order

Files == 0 .. NumFiles - 1

\* The file f as the sender has it: its chunks by their place in it
Content(f) == [i \in 1 .. Chunks[f] |-> <<f, i - 1>>]

Complete(f) == acked[f] = Chunks[f]

Init ==
  /\ acked = [f \in Files |-> 0]
  /\ handed = <<>>

ReceiveChunk ==
  \E f \in Files :
    /\ acked[f] < Chunks[f]
    /\ \A g \in 0 .. f - 1 : Complete(g)
    /\ acked' = [acked EXCEPT ![f] = @ + 1]
    /\ UNCHANGED handed

\* What is reported of the file after those that were
Tell(content, outcome) ==
  /\ \A f \in Files : Complete(f)
  /\ Len(handed) < NumFiles
  /\ handed' = Append(handed, [file |-> Len(handed), content |-> content,
                               outcome |-> outcome])
  /\ UNCHANGED acked

HandOver == Tell(Content(Len(handed)), "whole")

\* The store rejects a transaction on a file that it holds.
GiveUp == Tell(<<>>, "rejected")

Next == ReceiveChunk \/ HandOver \/ GiveUp

Spec == Init /\ [][Next]_<<acked, handed>>
=============================================================================
