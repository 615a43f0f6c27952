----------------------------- MODULE FramePacing -----------------------------
(* FramerateController and VideoAdapter of the media crate: which frames of a *)
(* source with a varying rate are kept so that the encoder sees no more than  *)
(* max_framerate, and to which size a frame is scaled.                        *)
EXTENDS Integers

CONSTANTS
  Stamps,         \* time stamps of frames
  Rates,          \* values of max_framerate, in half frames per second
  Second,         \* NSECS_PER_SEC
  Sizes, Limits   \* widths and heights of frames, and limits on them

ASSUME FramePacingAssumption ==
  /\ Stamps \subseteq Int /\ Rates \subseteq Nat /\ Second \in Nat \ {0}
  /\ Sizes \subseteq Nat \ {0} /\ Limits \subseteq Nat \ {0}

VARIABLES
  maxRate,                \* max_framerate
  nextFrame, paced,       \* next_frame_timestamp_ns, and whether there is one
  pacer,                  \* "live", or "panicked"
  pacedFrom,              \* ghost: nextFrame when it was last set anew or the rate changed
  keptSince, forcedSince, \* ghost: frames kept, and forced against a drop, since
  keptAt                  \* ghost: time stamp of the frame last kept

pacerVars == <<maxRate, nextFrame, paced, pacer, pacedFrom, keptSince, forcedSince, keptAt>>

(* f64::MAX, the rate of new and of reset: so large that the distance is 0.   *)
NoLimit == 2 * (Second + 1)

(* Frames per second as the integer the code divides by, and the distance.    *)
WholeRate == maxRate \div 2
Interval == Second \div WholeRate
Throttles == WholeRate > 0 /\ Interval > 0

PacerTypeOK ==
  /\ maxRate \in Rates \cup {NoLimit} /\ paced \in BOOLEAN /\ pacer \in {"live", "panicked"}
  /\ nextFrame \in Int /\ pacedFrom \in Int /\ keptAt \in Int
  /\ keptSince \in Nat /\ forcedSince \in Nat

PacerInit ==
  /\ maxRate \in Rates \cup {NoLimit} /\ nextFrame = 0 /\ paced = FALSE /\ pacer = "live"
  /\ pacedFrom = 0 /\ keptSince = 0 /\ forcedSince = 0 /\ keptAt = 0

-----------------------------------------------------------------------------
(* should_drop_frame.  A rate below one half drops everything; one below one  *)
(* is 0 as an integer, and the division panics.                               *)
Near(ts) == paced /\ nextFrame - ts < 2 * Interval /\ ts - nextFrame < 2 * Interval

Panics == maxRate = 1
PacerPanics ==
  /\ pacer = "live" /\ Panics /\ pacer' = "panicked"
  /\ UNCHANGED <<maxRate, nextFrame, paced, pacedFrom, keptSince, forcedSince, keptAt>>

DropsEarly(ts) == Throttles /\ Near(ts) /\ nextFrame > ts

DropFrame(ts) == pacer = "live" /\ (maxRate < 1 \/ DropsEarly(ts)) /\ UNCHANGED pacerVars

Advance(ts) == nextFrame' = nextFrame + Interval

KeepInTime(ts) ==
  /\ pacer = "live" /\ Throttles /\ Near(ts) /\ nextFrame <= ts /\ Advance(ts)
  /\ keptSince' = keptSince + 1 /\ keptAt' = ts
  /\ UNCHANGED <<maxRate, paced, pacer, pacedFrom, forcedSince>>

(* The first frame, and one too far from the expected time.                   *)
KeepAndReset(ts) ==
  /\ pacer = "live" /\ Throttles /\ ~Near(ts)
  /\ nextFrame' = ts + Interval \div 2 /\ paced' = TRUE
  /\ pacedFrom' = nextFrame' /\ keptSince' = 0 /\ forcedSince' = 0 /\ keptAt' = ts
  /\ UNCHANGED <<maxRate, pacer>>

(* A rate so high that the distance is 0 keeps every frame.                   *)
KeepAll == pacer = "live" /\ WholeRate > 0 /\ Interval = 0 /\ UNCHANGED pacerVars

(* keep_frame: what would be dropped is kept and moves the next one.          *)
ForceFrame(ts) ==
  /\ pacer = "live" /\ DropsEarly(ts) /\ Advance(ts) /\ forcedSince' = forcedSince + 1
  /\ UNCHANGED <<maxRate, paced, pacer, pacedFrom, keptSince, keptAt>>

SetRate(r) ==
  /\ pacer = "live" /\ maxRate' = r
  /\ pacedFrom' = nextFrame /\ keptSince' = 0 /\ forcedSince' = 0
  /\ UNCHANGED <<nextFrame, paced, pacer, keptAt>>

ResetPacer ==
  /\ pacer = "live" /\ paced' = FALSE /\ maxRate' = NoLimit
  /\ pacedFrom' = nextFrame /\ keptSince' = 0 /\ forcedSince' = 0
  /\ UNCHANGED <<nextFrame, pacer, keptAt>>

PacerNext ==
  \/ PacerPanics \/ KeepAll \/ ResetPacer
  \/ \E ts \in Stamps : DropFrame(ts) \/ KeepInTime(ts) \/ KeepAndReset(ts) \/ ForceFrame(ts)
  \/ \E r \in Rates : SetRate(r)

PacerSpec == PacerInit /\ [][PacerNext]_pacerVars

-----------------------------------------------------------------------------
(* adapt_resolution: scaled by the smaller of the two factors, rounded half   *)
(* away from zero, and at least 2.                                            *)
AtLeastTwo(n) == IF n < 2 THEN 2 ELSE n
Rounded(n, d) == (2 * n + d) \div (2 * d)
NeedsScaling(w, h, mw, mh) == w > mw \/ h > mh

Scaled(w, h, mw, mh) ==
  IF mw * h <= mh * w THEN [w |-> AtLeastTwo(mw), h |-> AtLeastTwo(Rounded(h * mw, w))]
  ELSE [w |-> AtLeastTwo(Rounded(w * mh, h)), h |-> AtLeastTwo(mh)]

-----------------------------------------------------------------------------
(* However the time stamps jitter, every frame kept in time or forced moves   *)
(* the next one by a whole distance, and the frames kept in time since the    *)
(* last jump, but for the first, took that much time: over any stretch        *)
(* without a jump the rate stays below max_framerate.                         *)
RateHeld ==
  Throttles => /\ nextFrame - pacedFrom = (keptSince + forcedSince) * Interval
               /\ keptSince > 0 => (keptSince - 1) * Interval <= keptAt - pacedFrom

(* A scaled frame is within the limits, when those are at least 2.            *)
ScaledFits ==
  \A w, h \in Sizes, mw, mh \in Limits :
    NeedsScaling(w, h, mw, mh) =>
      /\ Scaled(w, h, mw, mh).w <= AtLeastTwo(mw) /\ Scaled(w, h, mw, mh).h <= AtLeastTwo(mh)

(* A rate of at least one half is throttled and never panics                  *)
(* (framerate_controller.rs:7).  Does not hold below 1.                       *)
NeverPanics == pacer = "live"
=============================================================================
