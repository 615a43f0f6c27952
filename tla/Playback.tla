------------------------------ MODULE Playback ------------------------------
(* Player::next_frame: packets of a file are given to a decoder that holds    *)
(* back some frames, until it yields one; at the end of the file it is told   *)
(* so and asked once more.                                                    *)
EXTENDS Naturals, Sequences, Functions

CONSTANTS
  MaxPackets,     \* bound: packets of the file
  MaxDelay        \* bound: frames the decoder holds back

ASSUME PlaybackAssumption == MaxPackets \in Nat /\ MaxDelay \in Nat

VARIABLES
  packets,        \* packets not read yet: a frame's number, or 0 for one of another stream
  frames,         \* numbers of the frames of the file that can be read
  delay,          \* frames the decoder of this file holds back
  decoder,        \* frames it was given and has not yielded
  draining,       \* it was told that the file is over
  shown,          \* frames next_frame has returned
  answer          \* what the last call returned: "frame", "none", "error", "calling"

playVars == <<packets, frames, delay, decoder, draining, shown, answer>>

VideoOf(file) == Range(file) \ {0}
Files == {[i \in 1 .. n |-> IF i \in audio THEN 0 ELSE i] : n \in 0 .. MaxPackets,
                                                          audio \in SUBSET (1 .. MaxPackets)}

PlaybackTypeOK ==
  /\ delay \in 0 .. MaxDelay /\ draining \in BOOLEAN
  /\ answer \in {"frame", "none", "error", "calling"}
  /\ Len(decoder) <= delay
  /\ draining => packets = <<>>

PlaybackInit ==
  /\ packets \in Files /\ frames = VideoOf(packets)
  /\ delay \in 0 .. MaxDelay
  /\ decoder = <<>> /\ draining = FALSE /\ shown = <<>> /\ answer = "frame"

(* The decoder yields its oldest frame once it holds more than its delay.     *)
Ready(d) == d # <<>> /\ (Len(d) > delay \/ draining')
Yields(d) ==
  /\ shown' = Append(shown, Head(d)) /\ decoder' = Tail(d)
  /\ answer' = "frame"

CallNextFrame ==
  /\ answer # "calling" /\ answer' = "calling"
  /\ UNCHANGED <<packets, frames, delay, decoder, draining, shown>>

(* A decoder that wants more is given the next packet, or, when none is left, *)
(* ends the file.                                                             *)
EndAtOnce(d) == decoder' = d /\ answer' = "none" /\ UNCHANGED shown
Again(d) == decoder' = d /\ UNCHANGED <<answer, shown>>

(* One packet: one of another stream is passed over, and a decoder that wants *)
(* more is given the next.                                                    *)
ReadPacket ==
  /\ answer = "calling" /\ packets # <<>>
  /\ packets' = Tail(packets)
  /\ UNCHANGED <<frames, delay, draining>>
  /\ IF Head(packets) = 0 THEN Again(decoder)
     ELSE LET d == Append(decoder, Head(packets))
          IN IF Ready(d) THEN Yields(d) ELSE Again(d)

(* No packet left: a decoder that is already draining refuses to be told so a *)
(* second time; otherwise one frame of the rest comes out, or none is left.   *)
EndOfFile ==
  /\ answer = "calling" /\ packets = <<>>
  /\ draining' = TRUE
  /\ IF draining THEN answer' = "error" /\ UNCHANGED <<decoder, shown>>
     ELSE IF Ready(decoder) THEN Yields(decoder) ELSE EndAtOnce(decoder)
  /\ UNCHANGED <<packets, frames, delay>>

(* A packet that cannot be read or decoded is an error of this call only.     *)
BadPacket ==
  /\ answer = "calling" /\ packets # <<>>
  /\ answer' = "error"
  /\ packets' = Tail(packets)
  /\ frames' = frames \ {Head(packets)}
  /\ UNCHANGED <<delay, decoder, draining, shown>>

PlaybackNext == CallNextFrame \/ ReadPacket \/ EndOfFile \/ BadPacket
PlaybackSpec == PlaybackInit /\ [][PlaybackNext]_playVars
----------------------------------------------------------------------------
(* Frames come in the order of the file, none twice and none left out, and    *)
(* next_frame answers None only when all of them have come.                   *)
NoneMeansAll ==
  /\ \A i, j \in DOMAIN shown : i < j => shown[i] < shown[j]
  /\ Range(shown) \subseteq frames
  /\ \A f \in frames, g \in Range(shown) : f <= g => f \in Range(shown)
  /\ answer = "none" => Range(shown) = frames
=============================================================================
