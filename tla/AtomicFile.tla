----------------------------- MODULE AtomicFile -----------------------------
(***************************************************************************)
(* What internal/artifact promises about one destination path, with no     *)
(* temporary file, link or fsync in sight: a register that calls replace   *)
(* or create in one step, that readers see whole, and that a power failure *)
(* may set back only to a content no call has yet made permanent over.     *)
(*                                                                         *)
(* A call is named by its writer and a content by the call that wrote it.  *)
(***************************************************************************)
CONSTANTS Writers,   \* calls of Write or WriteNew, each made at most once
          Readers,   \* processes that load the file
          Nothing,   \* no file at the path
          Original,  \* the file that was there before any call
          Device     \* a destination that is not a regular file

VARIABLES content,   \* what the path holds
          keep,      \* what it may hold after a power failure
          phase,     \* how far each call has come
          call,      \* which of the two operations each call is
          settled,   \* whether the call's effect was made permanent
          looking,   \* the content each reader is in the middle of reading
          got        \* what each reader's last read returned

vars == <<content, keep, phase, call, settled, looking, got>>

Init ==
  /\ content \in {Nothing, Original, Device}
  /\ keep = {content}
  /\ phase = [w \in Writers |-> "idle"]
  /\ call = [w \in Writers |-> "none"]
  /\ settled = [w \in Writers |-> FALSE]
  /\ looking = [r \in Readers |-> Nothing]
  /\ got = [r \in Readers |-> Nothing]

SetPhase(w, p) == phase' = [phase EXCEPT ![w] = p]

Call(w, op) ==
  /\ phase[w] = "idle"
  /\ op \in {"Write", "WriteNew"}
  /\ call' = [call EXCEPT ![w] = op]
  /\ SetPhase(w, "called")
  /\ UNCHANGED <<content, keep, settled, looking, got>>

\* The one step at which a call takes effect.
Apply(w) ==
  /\ phase[w] = "called"
  /\ call[w] = "WriteNew" => content = Nothing
  /\ content # Device
  /\ content' = w
  /\ keep' = keep \cup {w}
  /\ SetPhase(w, "applied")
  /\ UNCHANGED <<call, settled, looking, got>>

\* A device has no content to replace: the bytes are handed to it.
HandOver(w) ==
  /\ phase[w] = "called"
  /\ call[w] = "Write"
  /\ content = Device
  /\ SetPhase(w, "ok")
  /\ UNCHANGED <<content, keep, call, settled, looking, got>>

Refuse(w) ==
  /\ phase[w] = "called"
  /\ call[w] = "WriteNew"
  /\ content # Nothing
  /\ SetPhase(w, "exists")
  /\ UNCHANGED <<content, keep, call, settled, looking, got>>

Fail(w) ==
  /\ phase[w] = "called"
  /\ SetPhase(w, "failed")
  /\ UNCHANGED <<content, keep, call, settled, looking, got>>

\* An applied call ends, having made the current content permanent or not.
Settle(w) ==
  /\ phase[w] = "applied"
  /\ SetPhase(w, "ok")
  /\ \/ /\ keep' = {content}
        /\ settled' = [settled EXCEPT ![w] = TRUE]
     \/ UNCHANGED <<keep, settled>>
  /\ UNCHANGED <<content, call, looking, got>>

Crash(w) ==
  /\ phase[w] # "idle"
  /\ SetPhase(w, "gone")
  /\ UNCHANGED <<content, keep, call, settled, looking, got>>

\* A power failure ends every call in progress.
PowerFailure ==
  /\ \E c \in keep : content' = c /\ keep' = {c}
  /\ \E S \in SUBSET Writers :
       phase' = [w \in Writers |-> IF w \in S THEN "gone" ELSE phase[w]]
  /\ looking' = [r \in Readers |-> Nothing]
  /\ UNCHANGED <<call, settled, got>>

Look(r) ==
  /\ looking[r] = Nothing
  /\ content \notin {Nothing, Device}
  /\ looking' = [looking EXCEPT ![r] = content]
  /\ UNCHANGED <<content, keep, phase, call, settled, got>>

\* What a reader gets is a content, whole, whatever happened since it looked.
Deliver(r) ==
  /\ looking[r] # Nothing
  /\ got' = [got EXCEPT ![r] = looking[r]]
  /\ looking' = [looking EXCEPT ![r] = Nothing]
  /\ UNCHANGED <<content, keep, phase, call, settled>>

WriterStep(w) ==
  \/ \E op \in {"Write", "WriteNew"} : Call(w, op)
  \/ Apply(w)
  \/ HandOver(w)
  \/ Refuse(w)
  \/ Fail(w)
  \/ Settle(w)
  \/ Crash(w)

Next ==
  \/ \E w \in Writers : WriterStep(w)
  \/ \E r \in Readers : Look(r) \/ Deliver(r)
  \/ PowerFailure

Spec == Init /\ [][Next]_vars
=============================================================================
