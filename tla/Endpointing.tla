----------------------------- MODULE Endpointing -----------------------------
(***************************************************************************)
(* Where an utterance starts and ends (services/transcription/             *)
(* endpointer.py): a machine fed one frame at a time, told only whether    *)
(* the frame is voiced, that hands back the segment a frame closed.        *)
(*                                                                         *)
(* Time and samples are counted in frames of the detector.  The voiced     *)
(* length is only read before a phrase counts as speech, and is not        *)
(* counted after.                                                          *)
(***************************************************************************)
EXTENDS Integers, FiniteSetsExt

CONSTANTS
    MinSpeech,    \* min_speech_ms
    MinSilence,   \* min_silence_ms
    PadBefore,    \* pad_before_ms
    PadAfter,     \* pad_after_ms
    MaxSegment    \* max_segment_ms

ASSUME EndpointAssumption ==
    /\ MinSpeech \in Nat /\ MinSilence \in Nat
    /\ PadBefore \in Nat /\ PadAfter \in Nat
    /\ MaxSegment \in Nat \ {0}

Quiet(cursor) == [state |-> "silence", cursor |-> cursor, from |-> 0, voiced |-> 0, silence |-> 0]

Endpointer == Quiet(0)

Segment(ep, forced) ==
    [start |-> Max({0, ep.from - PadBefore}), end |-> ep.cursor + PadAfter, forced |-> forced]

Open(ep) == [ep |-> ep, closed |-> {}]

\* The phrase open in ep ends: nothing, or one segment.
CloseSegment(ep, forced) == [ep |-> Quiet(ep.cursor), closed |-> {Segment(ep, forced)}]

ForceIfTooLong(ep) ==
    IF ep.cursor - ep.from >= MaxSegment THEN CloseSegment(ep, TRUE) ELSE Open(ep)

Push(old, voiced) ==
    LET ep == [old EXCEPT !.cursor = @ + 1] IN
    CASE ep.state = "silence" ->
            Open(IF voiced
                 THEN [ep EXCEPT !.state = "maybe_speech", !.from = old.cursor, !.voiced = 1]
                 ELSE ep)
      [] ep.state = "maybe_speech" ->
            IF ~voiced THEN Open(Quiet(ep.cursor))
            ELSE IF ep.voiced + 1 >= MinSpeech
                 THEN ForceIfTooLong([ep EXCEPT !.state = "speech", !.voiced = 0])
                 ELSE ForceIfTooLong([ep EXCEPT !.voiced = @ + 1])
      [] ep.state = "speech" ->
            ForceIfTooLong(IF voiced THEN ep
                           ELSE [ep EXCEPT !.state = "maybe_done", !.silence = 1])
      [] ep.state = "maybe_done" ->
            IF voiced
            THEN ForceIfTooLong([ep EXCEPT !.state = "speech", !.silence = 0])
            ELSE IF ep.silence + 1 >= MinSilence
                 THEN CloseSegment(ep, FALSE)
                 ELSE ForceIfTooLong([ep EXCEPT !.silence = @ + 1])

Flush(ep) ==
    IF ep.state \in {"silence", "maybe_speech"}
    THEN Open(Quiet(ep.cursor))
    ELSE CloseSegment(ep, TRUE)
=============================================================================
