------------------------------- MODULE Replay -------------------------------
(***************************************************************************)
(* A replay recording (db/database.py), the loop that samples it and the   *)
(* playback of it through a Replay device (simulation/engine.py,           *)
(* simulation/runtime.py, api/routers/replay_recordings.py).  A sample is  *)
(* a snapshot of all points; here it is its index and a number that tells  *)
(* it from every other one.  advance_replay_playback awaits the database   *)
(* between its steps, and the transport routes run in between.             *)
(***************************************************************************)
EXTENDS Integers, FiniteSetsExt

CONSTANTS
  Caps,          \* maximum_samples an operator chooses
  Nothing,       \* no sample, no index, no answer awaited
  MaxSteps,      \* most samples playback moves in one poll
  MaxTakes,      \* bound on the samples taken
  MaxCapEdits,   \* bound on edits of the recording
  MaxTransport,  \* bound on transport commands
  MaxRebuilds    \* bound on reloads of the BACnet stack

ASSUME ReplayAssumption ==
  /\ Caps \subseteq Nat \ {0} /\ MaxSteps \in Nat /\ MaxTakes \in Nat
  /\ MaxCapEdits \in Nat /\ MaxTransport \in Nat /\ MaxRebuilds \in Nat

VARIABLES
  recording,  \* replay_recordings: status, cap, mode
  samples,    \* replay_samples: index, take
  takes,      \* samples taken so far
  sampling,   \* what add_replay_sample has read: full or not
  player,     \* _replay_playback: status, index, loop
  stopping,   \* replay_stop awaits the bounds
  advancing,  \* where advance_replay_playback is, and what it has read
  applied,    \* _replay_applied_index
  shown,      \* the sample in the device's objects
  edits       \* how many edits, commands and reloads there were

rpVars == <<recording, samples, takes, sampling, player, stopping, advancing, applied, shown, edits>>

Indices(set) == {s.index : s \in set}
WithoutOldest(set) == {s \in set : s.index # Min(Indices(set))}

\* The newest n samples.
Newest(set, n) == {s \in set : Cardinality({t \in set : t.index > s.index}) < n}

AtRest == [step |-> "idle", low |-> 0, high |-> 0, index |-> 0, found |-> {}]

ReplayInit ==
  /\ recording = [status |-> "recording", cap |-> Max(Caps), mode |-> "overwrite"]
  /\ samples = {} /\ takes = 0 /\ sampling = Nothing
  /\ player = [status |-> "stopped", index |-> 0, loop |-> FALSE]
  /\ stopping = FALSE
  /\ advancing = AtRest
  /\ applied = Nothing /\ shown = Nothing
  /\ edits = [cap |-> 0, transport |-> 0, rebuild |-> 0]

recordingVars == <<recording, samples, takes, sampling>>
playingVars == <<player, stopping, advancing, applied, shown>>

---------------------------------------------------------------------------
(* Recording *)

\* add_replay_sample reads the row and counts; a full recording in mode
\* "stop" is completed instead.
BeginSample ==
  /\ recording.status = "recording" /\ sampling = Nothing /\ takes < MaxTakes
  /\ LET full == Cardinality(samples) >= recording.cap
     IN IF full /\ recording.mode = "stop"
        THEN recording' = [recording EXCEPT !.status = "completed"] /\ UNCHANGED sampling
        ELSE sampling' = [full |-> full] /\ UNCHANGED recording
  /\ UNCHANGED <<samples, takes, playingVars, edits>>

\* Mutant: the index is the number of samples there are.
StoreSampleByCount ==
  /\ sampling # Nothing
  /\ LET kept == IF sampling.full THEN WithoutOldest(samples) ELSE samples
     IN samples' = kept \cup {[index |-> Cardinality(kept), take |-> takes + 1]}
  /\ takes' = takes + 1 /\ sampling' = Nothing
  /\ UNCHANGED <<recording, playingVars, edits>>

\* It evicts the lowest index if the recording was full, and stores the new
\* snapshot one above the highest that is left.
StoreSample ==
  /\ sampling # Nothing
  /\ LET kept == IF sampling.full THEN WithoutOldest(samples) ELSE samples
         next == IF kept = {} THEN 0 ELSE Max(Indices(kept)) + 1
     IN samples' = kept \cup {[index |-> next, take |-> takes + 1]}
  /\ takes' = takes + 1 /\ sampling' = Nothing
  /\ UNCHANGED <<recording, playingVars, edits>>

StopRecording ==
  /\ recording.status = "recording"
  /\ recording' = [recording EXCEPT !.status = "completed"]
  /\ UNCHANGED <<samples, takes, sampling, playingVars, edits>>

\* update_replay_recording: one transaction, because it begins by writing.
UpdateRecording(cap, mode) ==
  /\ edits.cap < MaxCapEdits
  /\ edits' = [edits EXCEPT !.cap = @ + 1]
  /\ LET excess == Cardinality(samples) > cap
     IN /\ samples' = IF excess /\ mode = "overwrite" THEN Newest(samples, cap) ELSE samples
        /\ recording' = [status |-> IF excess /\ mode = "stop" THEN "completed" ELSE recording.status,
                         cap |-> cap, mode |-> mode]
  /\ UNCHANGED <<takes, sampling, playingVars>>

---------------------------------------------------------------------------
(* Playback *)

Command ==
  /\ edits.transport < MaxTransport
  /\ edits' = [edits EXCEPT !.transport = @ + 1]

\* replay_play, replay_pause, replay_set_loop
Play == Command /\ player' = [player EXCEPT !.status = "playing"]
        /\ UNCHANGED <<recordingVars, stopping, advancing, applied, shown>>
PausePlay == Command /\ player' = [player EXCEPT !.status = "paused"]
             /\ UNCHANGED <<recordingVars, stopping, advancing, applied, shown>>
SetLoop == Command /\ player' = [player EXCEPT !.loop = ~@]
           /\ UNCHANGED <<recordingVars, stopping, advancing, applied, shown>>

\* The route lets through an index within the bounds it has just read.
SeekTo(index) ==
  /\ Command
  /\ samples # {} /\ index \in Min(Indices(samples))..Max(Indices(samples))
  /\ player' = [player EXCEPT !.index = index]
  /\ UNCHANGED <<recordingVars, stopping, advancing, applied, shown>>

\* replay_stop: the status at once, the index when the bounds are there.
StopPlay ==
  /\ Command /\ ~stopping
  /\ player' = [player EXCEPT !.status = "stopped"] /\ stopping' = TRUE
  /\ UNCHANGED <<recordingVars, advancing, applied, shown>>

Rewind ==
  /\ stopping
  /\ player' = [player EXCEPT !.index = IF samples = {} THEN 0 ELSE Min(Indices(samples))]
  /\ stopping' = FALSE
  /\ UNCHANGED <<recordingVars, advancing, applied, shown, edits>>

\* advance_replay_playback: the bounds ...
ReadRange ==
  /\ advancing.step = "idle" /\ samples # {}
  /\ advancing' = [AtRest EXCEPT !.step = "move", !.low = Min(Indices(samples)),
                                 !.high = Max(Indices(samples))]
  /\ UNCHANGED <<recordingVars, player, stopping, applied, shown, edits>>

Clamped == IF player.index \in advancing.low..advancing.high THEN player.index ELSE advancing.low

\* n samples on: past the last one it starts over if it loops, else it stops there.
Onward(p, n) ==
  IF p.loop
  THEN [p EXCEPT !.index = advancing.low + ((@ - advancing.low + n) % (advancing.high - advancing.low + 1))]
  ELSE IF p.index + n > advancing.high
  THEN [p EXCEPT !.index = advancing.high, !.status = "stopped"]
  ELSE [p EXCEPT !.index = @ + n]

\* ... the position, as far as time has passed, and whether it is the one
\* applied already ...
MoveOn(steps) ==
  /\ advancing.step = "move"
  /\ player.status # "playing" => steps = 0
  /\ LET p == Onward([player EXCEPT !.index = Clamped], steps)
     IN /\ player' = p
        /\ advancing' = IF applied = p.index THEN AtRest
                        ELSE [AtRest EXCEPT !.step = "read", !.index = p.index]
  /\ UNCHANGED <<recordingVars, stopping, applied, shown, edits>>

\* ... the sample, which may be gone ...
ReadFrame ==
  /\ advancing.step = "read"
  /\ advancing' = [advancing EXCEPT !.step = "inject",
                                    !.found = {s \in samples : s.index = advancing.index}]
  /\ UNCHANGED <<recordingVars, player, stopping, applied, shown, edits>>

\* ... and, after two more reads, its values into the objects.  What is noted
\* as applied is the position now.
Inject ==
  /\ advancing.step = "inject"
  /\ shown' = IF advancing.found = {} THEN shown ELSE CHOOSE s \in advancing.found : TRUE
  /\ applied' = player.index
  /\ advancing' = AtRest
  /\ UNCHANGED <<recordingVars, player, stopping, edits>>

\* reload() makes the objects anew, with the values of their behaviors.
RebuildObjects ==
  /\ edits.rebuild < MaxRebuilds
  /\ edits' = [edits EXCEPT !.rebuild = @ + 1]
  /\ shown' = Nothing
  /\ UNCHANGED <<recordingVars, player, stopping, advancing, applied>>

ReplayNext ==
  \/ BeginSample \/ StoreSample \/ StopRecording
  \/ \E cap \in Caps, mode \in {"overwrite", "stop"} : UpdateRecording(cap, mode)
  \/ Play \/ PausePlay \/ SetLoop \/ StopPlay \/ Rewind
  \/ \E index \in Indices(samples) : SeekTo(index)
  \/ ReadRange \/ ReadFrame \/ Inject \/ RebuildObjects
  \/ \E steps \in 0..MaxSteps : MoveOn(steps)

ReplaySpec == ReplayInit /\ [][ReplayNext]_rpVars

---------------------------------------------------------------------------
\* "the remaining range is always contiguous (no internal gaps), letting
\* playback step through it with a plain +1": whatever is evicted, trimmed or
\* stored meanwhile, the stored indices have no gap and no index twice, and
\* their order is the order in which the samples were taken.
PlaysInOrder ==
  /\ \A s \in samples : s.index = Min(Indices(samples)) \/ s.index - 1 \in Indices(samples)
  /\ \A s, t \in samples : s.index < t.index <=> s.take < t.take
=============================================================================
