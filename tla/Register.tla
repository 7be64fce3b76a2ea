------------------------------- MODULE Register -------------------------------
(***************************************************************************)
(* What a persistent document promises: it always holds one whole value,   *)
(* a write takes effect in one step between its call and its return, and a *)
(* power cut brings back a value that was whole too: the last one made     *)
(* durable or one written after it.                                        *)
(***************************************************************************)
EXTENDS Integers

CONSTANTS
    Writers,
    Values,   \* what may be written
    Unset,    \* nothing was written yet
    NoCall    \* a writer that has no write to do

VARIABLES
    value,    \* what a reader gets
    kept,     \* the values a power cut may bring back
    call      \* the value a writer has asked to write and not written

rvars == <<value, kept, call>>

RInit ==
    /\ value \in Values \cup {Unset}
    /\ kept = {value}
    /\ call = [w \in Writers |-> NoCall]

RCall(w, v) ==
    /\ call[w] = NoCall
    /\ call' = [call EXCEPT ![w] = v]
    /\ UNCHANGED <<value, kept>>

RWrite(w) ==
    /\ call[w] # NoCall
    /\ value' = call[w]
    /\ kept' = kept \cup {call[w]}
    /\ call' = [call EXCEPT ![w] = NoCall]

(* The write failed: the value is what it was. *)
RFail(w) ==
    /\ call' = [call EXCEPT ![w] = NoCall]
    /\ UNCHANGED <<value, kept>>

(* The value is taken away: like a write, but nobody called for it. *)
RErase ==
    /\ value' = Unset
    /\ kept' = kept \cup {Unset}
    /\ UNCHANGED call

(* Somebody else put a value there. *)
RReplace ==
    /\ value' \in Values
    /\ kept' = {value'}
    /\ UNCHANGED call

(* What a reader gets is durable now. *)
RFlush == kept' = {value} /\ UNCHANGED <<value, call>>

(* The writers die with their calls. *)
RKill ==
    /\ call' = [w \in Writers |-> NoCall]
    /\ UNCHANGED <<value, kept>>

RPowerCut ==
    /\ value' \in kept
    /\ kept' = {value'}
    /\ call' = [w \in Writers |-> NoCall]

RNext ==
    \/ \E w \in Writers, v \in Values : RCall(w, v)
    \/ \E w \in Writers : RWrite(w) \/ RFail(w)
    \/ RErase
    \/ RReplace
    \/ RFlush
    \/ RKill
    \/ RPowerCut

RSpec == RInit /\ [][RNext]_rvars
=============================================================================
