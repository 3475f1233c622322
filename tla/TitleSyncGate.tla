---------------------------- MODULE TitleSyncGate ----------------------------
(***************************************************************************)
(* The admission gate of title synchronisation                              *)
(* (internal/runtime/title_sync_gate.go): per marker, at most one attempt    *)
(* in flight, and no new attempt after a success until the marker is cleared.*)
(* Every operation of the gate runs under its mutex, so each is one step.   *)
(***************************************************************************)
EXTENDS Naturals

CONSTANT MaxAttempts   \* bound: attempts admitted
ASSUME AttemptsAssumption == MaxAttempts \in Nat

VARIABLES
    states,    \* [Markers -> GateStates]
    nextID     \* the last attempt number given out

gateVars == <<states, nextID>>

\* titleSyncMarkers, and the order in which they are cleared.
Markers == {"sonarr", "tmdb", "radarr"}
Position == [sonarr |-> 1, tmdb |-> 2, radarr |-> 3]

GateStates == [inFlight : BOOLEAN, retainedSuccess : BOOLEAN,
               generation : Nat, attemptID : Nat]
Attempts == [marker : Markers, generation : Nat, id : Nat]

newTitleSyncGate ==
    /\ states = [m \in Markers |-> [inFlight |-> FALSE, retainedSuccess |-> FALSE,
                                    generation |-> 0, attemptID |-> 0]]
    /\ nextID = 0

\* Mutant: a retained success is checked, an attempt in flight is not.
TooFrequentUnlessInFlight(m) == states[m].retainedSuccess

\* begin answers ErrTitleSyncTooFrequent.
TooFrequent(m) == states[m].inFlight \/ states[m].retainedSuccess

\* The attempt that begin hands to its caller.
NewAttempt(m) == [marker |-> m, generation |-> states[m].generation, id |-> nextID + 1]

BeginTitleSync(m) ==
    /\ ~TooFrequent(m)
    /\ nextID < MaxAttempts
    /\ nextID' = nextID + 1
    /\ states' = [states EXCEPT ![m] = [inFlight |-> TRUE,
                                        retainedSuccess |-> @.retainedSuccess,
                                        generation |-> @.generation,
                                        attemptID |-> nextID + 1]]

\* The state's attempt is still the one that is finishing.
IsCurrent(attempt) ==
    /\ states[attempt.marker].attemptID = attempt.id
    /\ states[attempt.marker].inFlight

\* Mutant: the generation is not compared, so a cleared marker is retained again.
RetainsWhateverGeneration(attempt, succeeded) == succeeded

\* A clear that came during the attempt wins over its outcome.
RetainsSuccess(attempt, succeeded) ==
    IF states[attempt.marker].generation = attempt.generation
    THEN succeeded
    ELSE states[attempt.marker].retainedSuccess

\* Mutant: the attempt is never taken out of flight after a clear.
FinishOnlySameGeneration(attempt, succeeded) ==
    /\ states' = IF IsCurrent(attempt)
                    /\ states[attempt.marker].generation = attempt.generation
                 THEN [states EXCEPT ![attempt.marker] =
                         [inFlight |-> FALSE,
                          retainedSuccess |-> RetainsSuccess(attempt, succeeded),
                          generation |-> @.generation,
                          attemptID |-> @.attemptID]]
                 ELSE states
    /\ UNCHANGED nextID

FinishTitleSync(attempt, succeeded) ==
    /\ states' = IF IsCurrent(attempt)
                 THEN [states EXCEPT ![attempt.marker] =
                         [inFlight |-> FALSE,
                          retainedSuccess |-> RetainsSuccess(attempt, succeeded),
                          generation |-> @.generation,
                          attemptID |-> @.attemptID]]
                 ELSE states
    /\ UNCHANGED nextID

ClearGate(m) ==
    /\ states' = [states EXCEPT ![m] = [inFlight |-> @.inFlight,
                                        retainedSuccess |-> FALSE,
                                        generation |-> @.generation + 1,
                                        attemptID |-> @.attemptID]]
    /\ UNCHANGED nextID

=============================================================================
