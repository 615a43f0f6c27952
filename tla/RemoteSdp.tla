----------------------------- MODULE RemoteSdp -----------------------------
(* The session description a field session writes for the server's side of a *)
(* transport (sfu.rs): the codec of the publish options, the direction, the   *)
(* transport's candidates, and for a consumer the stream's SSRC put in.       *)
EXTENDS Naturals, Sequences, SequencesExt

CONSTANTS
  Codecs,         \* codec names of the options, known or not
  Addresses,      \* addresses of candidates
  LocalNames,     \* those that end in .local
  Ssrcs, NoSsrc,  \* stream numbers of a consumer's parameters; none given
  MaxCandidates   \* bound: candidates of a transport

ASSUME SdpAssumption ==
  LocalNames \subseteq Addresses /\ NoSsrc \notin Ssrcs /\ MaxCandidates \in Nat

VARIABLES
  asked,          \* what the description is for
  sdp             \* the description: a sequence of lines

sdpVars == <<asked, sdp>>

-----------------------------------------------------------------------------
(* Payload type, name and format parameters; an unknown codec means VP8.      *)
CodecSpec(codec) ==
  CASE codec = "h264" -> [pt |-> 101, name |-> "H264", fmtp |-> TRUE]
    [] codec = "vp9"  -> [pt |-> 99, name |-> "VP9", fmtp |-> FALSE]
    [] codec = "av1"  -> [pt |-> 97, name |-> "AV1", fmtp |-> FALSE]
    [] OTHER          -> [pt |-> 96, name |-> "VP8", fmtp |-> FALSE]

Line(kind, what) == [kind |-> kind, what |-> what]
Mid(direction) == IF direction = "sendonly" THEN "0" ELSE "video"

Reachable(candidates) == SelectSeq(candidates, LAMBDA c : c \notin LocalNames)
ConnectionAddress(candidates) ==
  LET usable == Reachable(candidates) IN IF usable = <<>> THEN "0.0.0.0" ELSE usable[1]

BuildRemoteSdp(spec, direction, candidates) ==
  LET pt(kind) == Line(kind, spec.pt)
  IN <<Line("group", Mid(direction)), Line("m", spec.pt),
       Line("c", ConnectionAddress(candidates)), Line("mid", Mid(direction)),
       Line("direction", direction), pt("rtpmap"), pt("rtcp-fb")>>
     \o (IF spec.fmtp THEN <<pt("fmtp")>> ELSE <<>>)
     \o [i \in DOMAIN Reachable(candidates) |-> Line("candidate", Reachable(candidates)[i])]
     \o <<Line("end-of-candidates", "")>>

(* The SSRC goes behind the first mid; a text without one gets it at its end. *)
SsrcLines(ssrc) == <<Line("ssrc", ssrc), Line("ssrc", ssrc)>>

(* Wrong variant: the SSRC is put before the media section.                   *)
InjectAtStart(lines, ssrc) == IF ssrc = NoSsrc THEN lines ELSE SsrcLines(ssrc) \o lines
InjectRemoteSsrc(lines, ssrc) ==
  LET mids == SelectInSeq(lines, LAMBDA l : l.kind = "mid")
  IN IF ssrc = NoSsrc THEN lines
     ELSE IF mids = 0 THEN Append(lines, Line("ssrc", ssrc))
     ELSE SubSeq(lines, 1, mids) \o SsrcLines(ssrc) \o SubSeq(lines, mids + 1, Len(lines))

-----------------------------------------------------------------------------
CandidateLists == UNION {[1 .. n -> Addresses] : n \in 0 .. MaxCandidates}

Descriptions == [codec : Codecs, direction : {"sendonly", "recvonly"},
                 candidates : CandidateLists, ssrc : Ssrcs \cup {NoSsrc}]

SdpInit == sdp = <<>> /\ asked \in Descriptions

(* A publisher's answer comes from a receive-only server; a subscriber's      *)
(* offer from a sending one, with the SSRC of what it consumes.               *)
DescribeProduce ==
  /\ sdp = <<>> /\ asked.direction = "recvonly"
  /\ sdp' = BuildRemoteSdp(CodecSpec(asked.codec), asked.direction, asked.candidates)
  /\ UNCHANGED asked

DescribeConsume ==
  /\ sdp = <<>> /\ asked.direction = "sendonly"
  /\ sdp' = InjectRemoteSsrc(BuildRemoteSdp(CodecSpec(asked.codec), asked.direction,
                                            asked.candidates), asked.ssrc)
  /\ UNCHANGED asked

SdpNext == DescribeProduce \/ DescribeConsume
SdpSpec == SdpInit /\ [][SdpNext]_sdpVars

-----------------------------------------------------------------------------
Whats(kind) == {l.what : l \in {sdp[i] : i \in {j \in DOMAIN sdp : sdp[j].kind = kind}}}
Index(kind) == SelectInSeq(sdp, LAMBDA l : l.kind = kind)

(* A description the peer connection can apply: the bundled section is the    *)
(* one described, every line on a format is about the format offered, no      *)
(* candidate is an mDNS name and the address of the section is a candidate's  *)
(* if it has one, and what is said of the stream is said inside its section.  *)
SdpWellFormed ==
  sdp # <<>> =>
    /\ Whats("group") = Whats("mid") /\ Whats("rtpmap") = Whats("m")
    /\ Whats("fmtp") \cup Whats("rtcp-fb") = Whats("m")
    /\ Whats("candidate") \cap LocalNames = {}
    /\ Whats("candidate") # {} => Whats("c") \subseteq Whats("candidate")
    /\ Whats("ssrc") # {} => Index("ssrc") > Index("m") /\ Whats("ssrc") = {asked.ssrc}
    /\ sdp[Len(sdp)].kind = "end-of-candidates"
=============================================================================
