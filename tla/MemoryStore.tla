---------------------------- MODULE MemoryStore ----------------------------
(***************************************************************************)
(* An agent's memories (index.ts), the recall engine's embeddings          *)
(* (recall/engine.ts and recall/persistence), entity observations          *)
(* (recall/observations.ts) and opinion reinforcement (behavioral.ts).     *)
(* Embedding, the persistence adapter, the summarizer and the classifier   *)
(* are awaited, or not awaited at all, while other calls run.              *)
(* What is in a memory's text does not matter here, nor its score: a       *)
(* ranking may put any memory first.                                       *)
(***************************************************************************)
EXTENDS Integers, FiniteSetsExt

CONSTANTS
    Memories, Entities, Readers,
    Limit,         \* how many memories a recall asks for
    Sure           \* confidence 1.0, in steps of 0.15

VARIABLES
    strategy,      \* "score", or "vector" for the two that embed
    memory,        \* memories: [state, entities, opinion, confidence]
    task,          \* what the remember() of a memory awaits
    forgotten,     \* _forgottenMemoryIds
    saved,         \* ids in the last save
    vectors,       \* the engine's cache of embeddings
    rows,          \* embeddings the adapter stores
    wire,          \* calls of the adapter that have not come through
    reader,        \* recall() calls
    work,          \* observations and reviews that remember() has kicked off
    regen,         \* observations the summarizer is writing
    review,        \* opinions being compared, with the confidence read before
    observation    \* the facts an entity's observation was written from, {} for none

store == <<memory, task, forgotten, saved>>
index == <<vectors, rows, wire>>
slow  == <<work, regen, review, observation>>
vars  == <<strategy, store, index, reader, slow>>

Fresh  == [state |-> "new", entities |-> {}, opinion |-> FALSE, confidence |-> Sure]
Reader == [at |-> "idle", asked |-> {}, todo |-> {}, sent |-> {}, fts |-> FALSE, got |-> {}]

TypeOK ==
    /\ strategy \in {"score", "vector"}
    /\ memory \in [Memories -> [state : {"new", "live", "gone"}, entities : SUBSET Entities,
                                opinion : BOOLEAN, confidence : 0..Sure]]
    /\ task \in [Memories -> {"none", "embedding", "writing"}]
    /\ {forgotten, saved, vectors, rows} \subseteq SUBSET Memories
    /\ wire \subseteq {"set", "delete"} \X Memories
    /\ reader \in [Readers -> [at : {"idle", "query", "searching", "answered", "failed", "threw"},
                               asked : SUBSET Memories, todo : SUBSET Memories, sent : SUBSET Memories,
                               fts : BOOLEAN, got : SUBSET Memories]]
    /\ work \subseteq Memories \X (Entities \cup {"opinion"})
    /\ regen \subseteq [entity : Entities, facts : SUBSET Memories]
    /\ review \subseteq [of : Memories, by : Memories, confidence : 0..Sure]
    /\ observation \in [Entities -> SUBSET Memories]

InitWith(s) ==
    /\ strategy = s
    /\ memory = [m \in Memories |-> Fresh]
    /\ task = [m \in Memories |-> "none"]
    /\ forgotten = {} /\ saved = {} /\ vectors = {} /\ rows = {} /\ wire = {}
    /\ reader = [r \in Readers |-> Reader]
    /\ work = {} /\ regen = {} /\ review = {}
    /\ observation = [e \in Entities |-> {}]

Init == \E s \in {"score", "vector"} : InitWith(s)

Live == {m \in Memories : memory[m].state = "live"}

-----------------------------------------------------------------------------
(* remember() *)

\* The end of remember(): the slow work is kicked off, the whole map is saved.
Stored(m, live, mem) ==
    /\ saved' = live
    /\ work' = work \cup ({m} \X mem.entities) \cup (IF mem.opinion THEN {<<m, "opinion">>} ELSE {})

\* The memory is in the map before anything is awaited.
Remember(m, entities, opinion) ==
    LET mem == [state |-> "live", entities |-> entities, opinion |-> opinion, confidence |-> Sure]
    IN  /\ memory[m].state = "new"
        /\ memory' = [memory EXCEPT ![m] = mem]
        /\ IF strategy = "score" THEN Stored(m, Live \cup {m}, mem) /\ UNCHANGED task
           ELSE task' = [task EXCEPT ![m] = "embedding"] /\ UNCHANGED <<saved, work>>
        /\ UNCHANGED <<strategy, forgotten, index, reader, regen, review, observation>>

\* embed(): the vector is cached and sent to the adapter, also of a memory that was
\* forgotten meanwhile.
Embedded(m) ==
    /\ task[m] = "embedding"
    /\ task' = [task EXCEPT ![m] = "writing"]
    /\ vectors' = vectors \cup {m} /\ wire' = wire \cup {<<"set", m>>}
    /\ UNCHANGED <<strategy, memory, forgotten, saved, rows, reader, slow>>

Written(m) ==
    /\ task[m] = "writing" /\ <<"set", m>> \notin wire
    /\ task' = [task EXCEPT ![m] = "none"]
    /\ Stored(m, Live, memory[m])
    /\ UNCHANGED <<strategy, memory, forgotten, index, reader, regen, review, observation>>

\* The embedding or the adapter fails: remember() throws, and the memory stays in
\* the map, to be written with the next save.
RememberFails(m) ==
    /\ task[m] # "none"
    /\ task' = [task EXCEPT ![m] = "none"]
    /\ UNCHANGED <<strategy, memory, forgotten, saved, index, reader, slow>>

-----------------------------------------------------------------------------
(* forget(), consolidate(), reinforce(), purgeStaleVectors() *)

\* forget() of one memory, consolidate() of all that have decayed by now.
Forget(gone) ==
    /\ gone \subseteq Live
    /\ memory' = [m \in Memories |-> IF m \in gone THEN [memory[m] EXCEPT !.state = "gone"] ELSE memory[m]]
    /\ vectors' = vectors \ gone /\ wire' = wire \cup ({"delete"} \X gone)
    /\ forgotten' = forgotten \cup gone
    /\ saved' = Live \ gone
    /\ UNCHANGED <<strategy, task, rows, reader, slow>>

\* reinforce() and rlFeedback() change importances, and save.
Reinforce ==
    /\ saved' = Live
    /\ UNCHANGED <<strategy, memory, task, forgotten, index, reader, slow>>

PurgeStaleVectors ==
    /\ vectors' = vectors \cap Live
    /\ wire' = wire \cup ({"delete"} \X (vectors \ Live))
    /\ UNCHANGED <<strategy, store, rows, reader, slow>>

\* Calls of the adapter are not ordered among themselves; a delete that fails is
\* not noticed.
AdapterAnswers(call, ok) ==
    /\ call \in wire
    /\ wire' = wire \ {call}
    /\ rows' = CASE ~ok -> rows
                 [] ok /\ call[1] = "set" -> rows \cup {call[2]}
                 [] OTHER -> rows \ {call[2]}
    /\ UNCHANGED <<strategy, store, vectors, reader, slow>>

-----------------------------------------------------------------------------
(* recall() and the engine's search() *)

Recall(r) ==
    /\ reader[r].at = "idle"
    /\ reader' = [reader EXCEPT ![r].at = "query", ![r].asked = Live]
    /\ UNCHANGED <<strategy, store, index, slow>>

\* Without a search the map is ranked as it stands.
RankedByScore(r, best) ==
    /\ strategy = "score" /\ reader[r].at = "query" /\ reader[r].asked = Live
    /\ best \subseteq Live /\ Cardinality(best) = Min({Limit, Cardinality(Live)})
    /\ reader' = [reader EXCEPT ![r] = [Reader EXCEPT !.at = "answered", !.got = best]]
    /\ UNCHANGED <<strategy, store, index, slow>>

\* The query is embedded.  Full-text search proposes candidates from the last save;
\* if it is off, fails or finds nothing, the memories read before are taken.
QueryEmbedded(r, found) ==
    LET candidates == IF found = {} THEN reader[r].asked ELSE found
    IN  /\ strategy = "vector" /\ reader[r].at = "query" /\ found \subseteq saved
        /\ reader' = [reader EXCEPT ![r] = [@ EXCEPT !.at = "searching", !.asked = candidates,
                                            !.todo = candidates \ vectors, !.fts = found # {}]]
        /\ UNCHANGED <<strategy, store, index, slow>>

\* getOrEmbed() of a candidate that is not cached: the adapter's row, or a new one.
CandidateEmbedded(r, m) ==
    /\ reader[r].at = "searching" /\ m \in reader[r].todo
    /\ reader' = [reader EXCEPT ![r].todo = @ \ {m}, ![r].sent = IF m \in rows THEN @ ELSE @ \cup {m}]
    /\ vectors' = vectors \cup {m}
    /\ wire' = IF m \in rows THEN wire ELSE wire \cup {<<"set", m>>}
    /\ UNCHANGED <<strategy, store, rows, slow>>

Seen(e) == observation[e] # {}

\* hoistObservations(): what is known of the entities of the best candidates goes
\* above them, unless it is cut off; candidates from full-text search name no entity.
MayHoist(r, best) ==
    IF reader[r].fts THEN {} ELSE {e \in UNION {memory[m].entities : m \in best} : Seen(e)}

Ranked(r, best, hoisted) ==
    /\ reader[r].at = "searching" /\ reader[r].todo = {}
    /\ \A m \in reader[r].sent : <<"set", m>> \notin wire
    /\ best \subseteq reader[r].asked /\ Cardinality(best) = Min({Limit, Cardinality(reader[r].asked)})
    /\ hoisted \subseteq MayHoist(r, best)

SlipKeepsCopies(r, best, hoisted) ==      \* the engine's copies are returned
    /\ Ranked(r, best, hoisted)
    /\ reader' = [reader EXCEPT ![r] = [Reader EXCEPT !.at = "answered", !.got = best]]
    /\ UNCHANGED <<strategy, store, index, slow>>

\* recall() looks every result up in the map and writes its score: on one that is
\* not there, forgotten or an observation, it throws.
Searched(r, best, hoisted) ==
    /\ Ranked(r, best, hoisted)
    /\ reader' = [reader EXCEPT ![r] =
                    IF hoisted = {} /\ best \subseteq Live
                    THEN [Reader EXCEPT !.at = "answered", !.got = best]
                    ELSE [Reader EXCEPT !.at = "threw"]]
    /\ UNCHANGED <<strategy, store, index, slow>>

\* The embedding of the query or a candidate fails, or the adapter does.
RecallFails(r) ==
    /\ strategy = "vector" /\ reader[r].at \in {"query", "searching"}
    /\ reader' = [reader EXCEPT ![r] = [Reader EXCEPT !.at = "failed"]]
    /\ UNCHANGED <<strategy, store, index, slow>>

-----------------------------------------------------------------------------
(* Observations *)

Facts(e) == {m \in Live : e \in memory[m].entities}

\* A recent observation of the same facts is kept.
StartObservation(m, e, recent) ==
    /\ <<m, e>> \in work /\ e \in Entities
    /\ work' = work \ {<<m, e>>}
    /\ regen' = IF Facts(e) = {} \/ (recent /\ observation[e] = Facts(e)) THEN regen
                ELSE regen \cup {[entity |-> e, facts |-> Facts(e)]}
    /\ UNCHANGED <<strategy, store, index, reader, review, observation>>

\* When the summarizer fails, what there is stays; if there is nothing, the facts
\* themselves do.
ObservationWritten(job, ok) ==
    /\ job \in regen
    /\ regen' = regen \ {job}
    /\ observation' = IF ok \/ observation[job.entity] = {}
                      THEN [observation EXCEPT ![job.entity] = job.facts] ELSE observation
    /\ UNCHANGED <<strategy, store, index, reader, work, review>>

-----------------------------------------------------------------------------
(* Opinions *)

\* The opinions that share an entity are read, with their confidence.
StartReview(m) ==
    /\ <<m, "opinion">> \in work
    /\ work' = work \ {<<m, "opinion">>}
    /\ review' = review \cup
         {[of |-> o, by |-> m, confidence |-> memory[o].confidence] :
            o \in {o \in Live \ {m} : memory[o].opinion /\ memory[o].entities \cap memory[m].entities # {}}}
    /\ UNCHANGED <<strategy, store, index, reader, regen, observation>>

\* Each is embedded, compared and classified, and its confidence moved from what
\* was read: up or down a step, or down two.  Nothing is saved.
Reviewed(item, delta) ==
    LET confidence == Max({0, Min({Sure, item.confidence + delta})})
    IN  /\ item \in review
        /\ review' = review \ {item}
        /\ memory' = IF item.of \in Live /\ confidence # item.confidence
                     THEN [memory EXCEPT ![item.of].confidence = confidence] ELSE memory
        /\ UNCHANGED <<strategy, task, forgotten, saved, index, reader, work, regen, observation>>

-----------------------------------------------------------------------------

Next ==
    \/ \E m \in Memories, entities \in SUBSET Entities, opinion \in BOOLEAN : Remember(m, entities, opinion)
    \/ \E m \in Memories : Embedded(m) \/ Written(m) \/ RememberFails(m) \/ StartReview(m)
    \/ \E gone \in SUBSET Memories : Forget(gone)
    \/ Reinforce \/ PurgeStaleVectors
    \/ \E call \in wire, ok \in BOOLEAN : AdapterAnswers(call, ok)
    \/ \E r \in Readers : Recall(r) \/ RecallFails(r)
    \/ \E r \in Readers, best \in SUBSET Memories : RankedByScore(r, best) \/ QueryEmbedded(r, best)
    \/ \E r \in Readers, m \in Memories : CandidateEmbedded(r, m)
    \/ \E r \in Readers, best \in SUBSET Memories, hoisted \in SUBSET Entities : Searched(r, best, hoisted)
    \/ \E m \in Memories, e \in Entities, recent \in BOOLEAN : StartObservation(m, e, recent)
    \/ \E job \in regen, ok \in BOOLEAN : ObservationWritten(job, ok)
    \/ \E item \in review, delta \in {-2, -1, 0, 1} : Reviewed(item, delta)

Spec == Init /\ [][Next]_vars

-----------------------------------------------------------------------------
(* Properties *)

\* A recall answers with memories the agent still has, whatever was forgotten or
\* consolidated while its search waited for embeddings.
AnswersLive ==
    \A r \in Readers : reader'[r].at = "answered" /\ reader[r].at # "answered" => reader'[r].got \subseteq Live
RecallReturnsLive == [][AnswersLive]_vars

\* A recall during which nothing was forgotten is answered (engine.ts: an observation
\* "is hoisted above raw facts in the returned top-K").  The code breaks it: recall()
\* looks the observation up among the memories.
RecallAnswered ==
    \A r \in Readers : reader[r].at = "threw" => forgotten # {}
=============================================================================
