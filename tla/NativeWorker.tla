---------------------------- MODULE NativeWorker ----------------------------
(***************************************************************************)
(* The resident model worker (native/model_worker_main.cpp) and its        *)
(* registry of early cancels (native/pending_cancel_registry.cpp).         *)
(*                                                                         *)
(* The reader thread takes commands from the pipe; the main thread takes   *)
(* jobs from the queue and generates, token by token, through the phase    *)
(* controller.  They share one mutex, one condition variable and two       *)
(* atomics.  A shutdown sets the atomics and notifies without the mutex,   *)
(* so it may fall between any two steps of the main thread.                *)
(***************************************************************************)
EXTENDS ReasoningPhase, FiniteSets, Functions

CONSTANTS
    Jobs,               \* keys: a request and its attempt
    SampledTokens,      \* what the sampler may answer
    prompt_batches,     \* batches of n_batch tokens in a prompt
    max_entries,        \* capacity of the registry
    MaxCancels          \* bound: cancels read

VARIABLES
    control,    \* SharedControl: jobs, pending_cancels, active, cancel, shutdown
    commandReader,     \* the reader thread
    main,       \* the main thread with the locals of generate()
    answered,   \* [Jobs -> the terminal frame of the job]
    asks        \* history: when a cancel of each job was last read (0: never), how many
                \*   were read, and the jobs whose entry outlived its time

processVars == <<control, commandReader, main, answered, asks>>

(* The empty key, which names no job *)
NoJob == "no job"

ASSUME NativeAssumption ==
    /\ max_entries \in Nat \ {0} /\ prompt_batches \in Nat \ {0} /\ MaxCancels \in Nat
    /\ NoJob \notin Jobs

(* The locals of a main thread that runs no job. *)
Between(pc) == [pc |-> pc, prompted |-> 0, phase |-> NewController, utf8 |-> NewUtf8,
                tokens |-> <<>>, final |-> <<>>, deltas |-> <<>>]

NativeInit ==
    /\ control = [jobs |-> <<>>, pending |-> << >>, active |-> NoJob, cancel |-> FALSE,
                  shutdown |-> FALSE, sent |-> {}]
    /\ commandReader = "reading"
    /\ main = Between("test")
    /\ answered = [j \in Jobs |-> "none"]
    /\ asks = [last |-> [j \in Jobs |-> 0], count |-> 0, lapsed |-> {}]

(* The main thread keeps the mutex from its test of the predicate until it  *)
(* sleeps or has taken a job; every other section is one step.              *)
MutexFree == main.pc \notin {"take", "sleep"}

-----------------------------------------------------------------------------
(* PendingCancelRegistry: a time per key.  Every operation first erases the *)
(* entries whose time has run out, so that none of them is ever seen: the   *)
(* model erases an entry when its time comes.                               *)

PendingKeys(pending) == DOMAIN pending

(* The other entries than the one, or those, that run out first. *)
WithoutOldest(pending) ==
    Restrict(pending, {k \in PendingKeys(pending) :
                          \E older \in PendingKeys(pending) : pending[older] < pending[k]})

(* Mutation: a full registry takes no new entry. *)
AddRefused(pending, job, now) ==
    IF job \notin PendingKeys(pending) /\ Cardinality(PendingKeys(pending)) >= max_entries
    THEN pending
    ELSE [k \in PendingKeys(pending) \cup {job} |-> IF k = job THEN now ELSE pending[k]]

(* A key that is there is refreshed; a new one displaces the oldest of a     *)
(* full registry.                                                           *)
Add(pending, job, now) ==
    LET full == Cardinality(PendingKeys(pending)) >= max_entries
        kept == IF job \notin PendingKeys(pending) /\ full
                THEN WithoutOldest(pending) ELSE pending
    IN  [k \in PendingKeys(kept) \cup {job} |-> IF k = job THEN now ELSE kept[k]]

(* consume() answers whether the entry was there and removes it. *)
Consumed(pending, job) == job \in PendingKeys(pending)

Remaining(pending, job) == Restrict(pending, PendingKeys(pending) \ {job})

(* All entries live equally long, so that the oldest runs out first. *)
EntryExpires ==
    \E job \in PendingKeys(control.pending) :
        /\ \A k \in PendingKeys(control.pending) : control.pending[job] <= control.pending[k]
        /\ control' = [control EXCEPT !.pending = Remaining(@, job)]
        /\ asks' = [asks EXCEPT !.lapsed = @ \cup {job}]
        /\ UNCHANGED <<commandReader, main, answered>>

-----------------------------------------------------------------------------
(* reader_loop *)

(* Mutation: a job is queued and nobody is woken. *)
NotifiedNobody(m) == m

Notified(m) == IF m.pc = "asleep" THEN [m EXCEPT !.pc = "predicate"] ELSE m

ReadGenerate(job) ==
    /\ commandReader = "reading" /\ MutexFree
    /\ job \notin control.sent
    /\ control' = [control EXCEPT !.jobs = Append(@, job), !.sent = @ \cup {job}]
    /\ main' = Notified(main)
    /\ UNCHANGED <<commandReader, answered, asks>>

(* A cancel for the job that runs sets the flag; any other waits. *)
ReadCancel(job) ==
    /\ commandReader = "reading" /\ MutexFree
    /\ asks.count < MaxCancels
    /\ control' = IF job = control.active THEN [control EXCEPT !.cancel = TRUE]
                  ELSE [control EXCEPT !.pending = Add(@, job, asks.count + 1)]
    /\ asks' = [asks EXCEPT
                  !.last[job] = asks.count + 1, !.count = @ + 1,
                  !.lapsed = @ \ {job}]
    /\ UNCHANGED <<commandReader, main, answered>>

(* A shutdown frame, or the end of the pipe *)
ReadShutdown ==
    /\ commandReader = "reading"
    /\ commandReader' = "cancel"
    /\ control' = [control EXCEPT !.shutdown = TRUE]
    /\ UNCHANGED <<main, answered, asks>>

ShutdownCancels ==
    /\ commandReader = "cancel"
    /\ commandReader' = "notify"
    /\ control' = [control EXCEPT !.cancel = TRUE]
    /\ UNCHANGED <<main, answered, asks>>

ShutdownNotifies ==
    /\ commandReader = "notify"
    /\ commandReader' = "done"
    /\ main' = Notified(main)
    /\ UNCHANGED <<control, answered, asks>>

-----------------------------------------------------------------------------
(* The main thread's wait for a job *)

MainGoto(pc) == main' = [main EXCEPT !.pc = pc]

MainTest ==
    /\ main.pc = "test"
    /\ MainGoto(IF control.shutdown THEN "join" ELSE "predicate")
    /\ UNCHANGED <<control, commandReader, answered, asks>>

MainPredicate ==
    /\ main.pc = "predicate"
    /\ MainGoto(IF control.shutdown THEN "join"
            ELSE IF control.jobs # <<>> THEN "take" ELSE "sleep")
    /\ UNCHANGED <<control, commandReader, answered, asks>>

MainSleep ==
    /\ main.pc = "sleep"
    /\ MainGoto("asleep")
    /\ UNCHANGED <<control, commandReader, answered, asks>>

SpuriousWakeup ==
    /\ main.pc = "asleep"
    /\ MainGoto("predicate")
    /\ UNCHANGED <<control, commandReader, answered, asks>>

(* Mutation: the flag of the job before is kept. *)
FlagKept(pending, job) == control.cancel \/ Consumed(pending, job)

(* Taking a job overwrites the flag. *)
Flag(pending, job) == Consumed(pending, job)

MainTake ==
    LET job == Head(control.jobs)
    IN  /\ main.pc = "take"
        /\ control' = [control EXCEPT !.jobs = Tail(@), !.active = job,
                                      !.cancel = Flag(control.pending, job),
                                      !.pending = Remaining(@, job)]
        /\ MainGoto("prompt")
        /\ UNCHANGED <<commandReader, answered, asks>>

MainJoin ==
    /\ main.pc = "join" /\ commandReader = "done"
    /\ MainGoto("exited")
    /\ UNCHANGED <<control, commandReader, answered, asks>>

-----------------------------------------------------------------------------
(* generate() and the terminal frame *)

(* The terminal frame is out.  Of a failed generation nothing is left. *)
Answer(type) ==
    /\ answered' = [answered EXCEPT ![control.active] = type]
    /\ main' = IF type = "completed" THEN [main EXCEPT !.pc = "clear"] ELSE Between("clear")

(* The prompt does not fit, or template, context or samplers fail. *)
SetupFails ==
    /\ main.pc = "prompt" /\ main.prompted \in {0, prompt_batches}
    /\ Answer("failed")
    /\ UNCHANGED <<control, commandReader, asks>>

PromptBatch ==
    /\ main.pc = "prompt" /\ main.prompted < prompt_batches
    /\ \/ control.cancel /\ Answer("cancelled")
       \/ ~control.cancel /\ Answer("failed")
       \/ /\ ~control.cancel
          /\ main' = [main EXCEPT !.prompted = @ + 1]
          /\ UNCHANGED answered
    /\ UNCHANGED <<control, commandReader, asks>>

PromptDone ==
    /\ main.pc = "prompt" /\ main.prompted = prompt_batches
    /\ MainGoto("generate")
    /\ UNCHANGED <<control, commandReader, answered, asks>>

(* One turn of the token loop.  A token of the final phase is streamed      *)
(* before the controller's verdict on it is looked at; only the final       *)
(* grammar's sampler is trusted with the end of the generation.             *)
Turn(token) ==
    LET before == main.phase.phase
        step == Consume(main.phase, token,
                        GrammarAcceptanceProven(token = EOG, before = "final"))
        streamed == before = "final" /\ token # EOG
        appended == IF streamed THEN Utf8Append(main.utf8, token)
                    ELSE [utf8 |-> main.utf8, completed |-> <<>>]
        next == [main EXCEPT !.phase = step.controller, !.utf8 = appended.utf8,
                    !.tokens = Append(@, token),
                    !.final = IF streamed THEN Append(@, token) ELSE @,
                    !.deltas = @ \o appended.completed]
    IN  IF ~appended.utf8.valid \/ step.action = "failed" THEN Answer("failed")
        ELSE /\ main' = [next EXCEPT !.pc = IF step.action = "completed" THEN "finish" ELSE @]
             /\ UNCHANGED answered

GenerateToken ==
    /\ main.pc = "generate" /\ main.phase.sampled < total_budget
    /\ \/ control.cancel /\ Answer("cancelled")
       \/ ~control.cancel /\ main.tokens # <<>> /\ Answer("failed")
       \/ ~control.cancel /\ \E token \in SampledTokens : Turn(token)
    /\ UNCHANGED <<control, commandReader, asks>>

LoopEnds ==
    /\ main.pc = "generate" /\ main.phase.sampled >= total_budget
    /\ MainGoto("finish")
    /\ UNCHANGED <<control, commandReader, answered, asks>>

Finish ==
    /\ main.pc = "finish"
    /\ Answer(IF main.phase.phase = "done" /\ Utf8Finish(main.utf8)
              THEN "completed" ELSE "failed")
    /\ UNCHANGED <<control, commandReader, asks>>

Clear ==
    /\ main.pc = "clear"
    /\ control' = [control EXCEPT !.active = NoJob]
    /\ main' = Between("test")
    /\ UNCHANGED <<commandReader, answered, asks>>

-----------------------------------------------------------------------------
MainStep ==
    \/ MainTest \/ MainPredicate \/ MainSleep \/ MainTake \/ MainJoin
    \/ SetupFails \/ PromptBatch \/ PromptDone
    \/ GenerateToken \/ LoopEnds \/ Finish \/ Clear

ReaderStep ==
    \/ \E job \in Jobs : ReadGenerate(job) \/ ReadCancel(job)
    \/ ReadShutdown \/ ShutdownCancels \/ ShutdownNotifies

NativeNext == MainStep \/ ReaderStep \/ EntryExpires \/ SpuriousWakeup

(* The main thread is scheduled, and the library calls it makes return. *)
NativeSpec == NativeInit /\ [][NativeNext]_processVars /\ WF_processVars(MainStep)

-----------------------------------------------------------------------------
(* Properties *)

(* Whose cancel the registry must still know: the latest max_entries that   *)
(* were asked for and have not outlived their time.                         *)
Asked(job) == asks.last[job] > 0

Since(job) == {k \in Jobs : asks.last[k] >= asks.last[job]}

Owed == {job \in Jobs : Asked(job) /\ Cardinality(Since(job)) <= max_entries} \ asks.lapsed

(* A cancel reaches exactly its job.  One that was read before its job was  *)
(* queued, while it waited or while it ran is waiting in the registry or    *)
(* has set the flag, whatever jobs ran in between; and while a job runs the *)
(* flag is set only for a cancel of that job or a shutdown (reader_loop,    *)
(* PendingCancelRegistry, the take of a job in main).                       *)
NoLostCancel ==
    \A job \in Owed :
        \/ answered[job] # "none"
        \/ Consumed(control.pending, job)
        \/ control.active = job /\ control.cancel

(* See NoLostCancel: a job does not suffer for the cancel of another. *)
CancelsOnlyItsJob ==
    /\ control.active # NoJob /\ control.cancel =>
          Asked(control.active) \/ control.shutdown
    /\ \A job \in Jobs : answered[job] = "cancelled" =>
          Asked(job) \/ control.shutdown

Occurrences(marker, tokens) ==
    {i \in 0 .. Len(tokens) - Len(marker) :
        SubSeq(tokens, i + 1, i + Len(marker)) = marker}

(* What is reported complete is a whole answer, seen from its tokens alone: *)
(* one start marker, then one end marker, then within its budget the final  *)
(* text, which is what was streamed, and the end of generation; nothing of  *)
(* the reasoning was streamed (generate, ReasoningPhaseController,          *)
(* Utf8Accumulator).                                                        *)
AnswerIsWhole ==
    main.pc = "clear" /\ answered[control.active] = "completed" =>
        \E s, e \in 0 .. Len(main.tokens) :
            /\ Occurrences(StartMarker, main.tokens) = {s}
            /\ Occurrences(EndMarker, main.tokens) = {e}
            /\ s < e
            /\ e + Len(EndMarker) <= reasoning_budget
            /\ LET final == SubSeq(main.tokens, e + Len(EndMarker) + 1, Len(main.tokens) - 1)
               IN  /\ Len(final) <= final_budget
                   /\ final = main.deltas /\ final = main.final
            /\ Last(main.tokens) = EOG
            /\ Len(main.tokens) <= total_budget

(* Every job that was read is answered, unless the worker is told to stop:  *)
(* no wake-up is lost between the reader's push and the main thread's wait, *)
(* and every generation ends (changed.wait, generate).                      *)
EveryJobAnswered ==
    \A job \in Jobs :
        job \in control.sent ~> answered[job] # "none" \/ control.shutdown

=============================================================================
