------------------------------ MODULE MCParts ------------------------------
(* The parts of the emulator that touch each other's state nowhere and are   *)
(* small enough to be checked side by side: in each behaviour one of them    *)
(* runs and the others stay as they were at the start.                       *)
EXTENDS ControllerJob, Match, SoundFifo, RzxRecording

VARIABLE part   \* the one that runs

parts == <<jobVars, matchVars, soundVars, recordingVars, part>>

PartsInit ==
  /\ JobInit /\ MatchInit /\ SoundInit /\ RecordingInit
  /\ part \in {"jobs", "match", "sound", "recording"}

PartsNext ==
  /\ UNCHANGED part
  /\ \/ part = "jobs" /\ JobNext /\ UNCHANGED <<matchVars, soundVars, recordingVars>>
     \/ part = "match" /\ MatchNext /\ UNCHANGED <<jobVars, soundVars, recordingVars>>
     \/ part = "sound" /\ SoundNext /\ UNCHANGED <<jobVars, matchVars, recordingVars>>
     \/ part = "recording" /\ RecordingNext /\ UNCHANGED <<jobVars, matchVars, soundVars>>

\* A part that does not run has nothing to do that is fair.
PartsSpec == PartsInit /\ [][PartsNext]_parts /\ JobFairness /\ SoundFairness
=============================================================================
