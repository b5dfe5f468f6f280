----------------------------- MODULE Detectors -----------------------------
(***************************************************************************)
(* The agent's detection framework: a DetectorRegistry of named detectors  *)
(* and a DetectorManager that initialises them, passes each event to those *)
(* that can process it, and shuts them down.  Every call of a detector is  *)
(* awaited, so an analysis, initialize_all() and the calls of an operator  *)
(* interleave there; two analyses share nothing but the registry, so one   *)
(* at a time is kept.  A detector is external: it returns one result,      *)
(* none, or raises.                                                        *)
(***************************************************************************)
EXTENDS Naturals, Sequences, SequencesExt, FiniteSets, Selection

CONSTANTS DetectorNames,   \* the names detectors are registered under
          AnalyzedEvents,  \* the events handed to analyze(): records [type, category]
          MaxAnalyses,     \* bound on the analyses of a behaviour
          Declared         \* [DetectorNames -> [types, categories]] sets, {} for no restriction

VARIABLES detectors,   \* _detectors, _order and _enabled: a sequence of [name, enabled]
          prepared,    \* the detectors whose _initialized is set
          initializing,\* initialize_all(): [running, todo]
          analysis,    \* the call of analyze() that runs, or ran last
          detectorCounts  \* DetectorMetricsCollector

detectorVars == <<detectors, prepared, initializing, analysis, detectorCounts>>

CanProcess(n, e) ==
    /\ Declared[n].types = {} \/ e.type \in Declared[n].types
    /\ Declared[n].categories = {} \/ e.category \in Declared[n].categories

Analyses == [phase : {"new", "running", "returned", "cancelled"},
             event : AnalyzedEvents,
             todo : Seq(DetectorNames),      \* the rest of the list_enabled() it took
             began : Seq(DetectorNames),     \* that list
             failed : SUBSET DetectorNames,  \* those that raised
             silent : SUBSET DetectorNames,  \* those that returned no result
             results : Seq(DetectorNames)]   \* all_results, by producer
NewAnalysis(e) == [phase |-> "new", event |-> e, todo |-> <<>>, began |-> <<>>,
                   failed |-> {}, silent |-> {}, results |-> <<>>]

NamesOf(ds) == [i \in DOMAIN ds |-> ds[i].name]
Registered == ToSet(NamesOf(detectors))
ListEnabled == NamesOf(Sifted(detectors, {d \in ToSet(detectors) : d.enabled}))
ListAll == NamesOf(detectors)

DetectorsInit ==
    /\ detectors = <<>>
    /\ prepared = {}
    /\ initializing = [running |-> FALSE, todo |-> <<>>]
    /\ analysis \in {NewAnalysis(e) : e \in AnalyzedEvents}
    /\ detectorCounts = [calls |-> 0, analyzed |-> 0, skipped |-> 0, failed |-> 0, detections |-> 0]

-----------------------------------------------------------------------------
(* The registry *)
RegisterDetector(n) ==
    /\ n \notin Registered
    /\ detectors' = Append(detectors, [name |-> n, enabled |-> TRUE])
    /\ UNCHANGED <<prepared, initializing, analysis, detectorCounts>>

UnregisterDetector(n) ==
    /\ n \in Registered
    /\ detectors' = Sifted(detectors, {d \in ToSet(detectors) : d.name # n})
    /\ UNCHANGED <<prepared, initializing, analysis, detectorCounts>>

WithEnabled(ds, n, on) ==
    [i \in DOMAIN ds |-> IF ds[i].name = n THEN [ds[i] EXCEPT !.enabled = on] ELSE ds[i]]

SetEnabled(n, on) ==
    /\ n \in Registered
    /\ detectors' = WithEnabled(detectors, n, on)
    /\ UNCHANGED <<prepared, initializing, analysis, detectorCounts>>

-----------------------------------------------------------------------------
(* initialize_all() and shutdown_all() *)
InitializeAllDetectors ==
    /\ ~initializing.running
    /\ initializing' = [running |-> TRUE, todo |-> ListAll]
    /\ UNCHANGED <<detectors, prepared, analysis, detectorCounts>>

(* A failure disables the detector; if it has been unregistered during the *)
(* await, disable() raises and ends initialize_all().                      *)
InitializeDetector(fails) ==
    /\ initializing.running /\ initializing.todo # <<>>
    /\ LET n == Head(initializing.todo)
           lost == fails /\ n \notin Registered
       IN  /\ prepared' = IF fails THEN prepared ELSE prepared \cup {n}
           /\ detectors' = IF fails THEN WithEnabled(detectors, n, FALSE) ELSE detectors
           /\ initializing' = IF lost THEN [running |-> FALSE, todo |-> <<>>]
                                      ELSE [initializing EXCEPT !.todo = Tail(@)]
    /\ UNCHANGED <<analysis, detectorCounts>>

InitializeAllEnds ==
    /\ initializing.running /\ initializing.todo = <<>>
    /\ initializing' = [initializing EXCEPT !.running = FALSE]
    /\ UNCHANGED <<detectors, prepared, analysis, detectorCounts>>

(* The base class's shutdown() does not fail and does not suspend; a       *)
(* disabled detector is not shut down.                                     *)
ShutdownAllDetectors ==
    /\ prepared' = prepared \ ToSet(ListEnabled)
    /\ UNCHANGED <<detectors, initializing, analysis, detectorCounts>>

-----------------------------------------------------------------------------
(* analyze() *)
BeginAnalysis(e) ==
    /\ analysis.phase # "running" /\ detectorCounts.calls < MaxAnalyses
    /\ analysis' = [NewAnalysis(e) EXCEPT !.phase = "running",
                       !.todo = ListEnabled, !.began = ListEnabled]
    /\ detectorCounts' = [detectorCounts EXCEPT !.calls = @ + 1]
    /\ UNCHANGED <<detectors, prepared, initializing>>

Passing == analysis.phase = "running" /\ analysis.todo # <<>>
Visited == Head(analysis.todo)

SkipDetector ==
    /\ Passing /\ ~CanProcess(Visited, analysis.event)
    /\ analysis' = [analysis EXCEPT !.todo = Tail(@)]
    /\ detectorCounts' = [detectorCounts EXCEPT !.skipped = @ + 1]
    /\ UNCHANGED <<detectors, prepared, initializing>>

DetectorAnswers(finds) ==
    /\ Passing /\ CanProcess(Visited, analysis.event)
    /\ analysis' = [analysis EXCEPT !.todo = Tail(@),
                       !.results = IF finds THEN Append(@, Visited) ELSE @,
                       !.silent = IF finds THEN @ ELSE @ \cup {Visited}]
    /\ detectorCounts' = [detectorCounts EXCEPT !.analyzed = @ + 1,
                             !.detections = @ + IF finds THEN 1 ELSE 0]
    /\ UNCHANGED <<detectors, prepared, initializing>>

(* A failure taken for the end of the analysis: a change of AfterFailure. *)
AbandonAfterFailure(a) == [a EXCEPT !.todo = <<>>, !.failed = @ \cup {Head(a.todo)}]

(* What a raise of its detector leaves of the call. *)
AfterFailure(a) == [a EXCEPT !.todo = Tail(@), !.failed = @ \cup {Head(a.todo)}]

DetectorRaises ==
    /\ Passing /\ CanProcess(Visited, analysis.event)
    /\ analysis' = AfterFailure(analysis)
    /\ detectorCounts' = [detectorCounts EXCEPT !.failed = @ + 1]
    /\ UNCHANGED <<detectors, prepared, initializing>>

(* CancelledError is raised again: the results so far are lost. *)
AnalysisCancelled ==
    /\ Passing /\ CanProcess(Visited, analysis.event)
    /\ analysis' = [analysis EXCEPT !.phase = "cancelled", !.results = <<>>]
    /\ UNCHANGED <<detectors, prepared, initializing, detectorCounts>>

AnalysisReturns ==
    /\ analysis.phase = "running" /\ analysis.todo = <<>>
    /\ analysis' = [analysis EXCEPT !.phase = "returned"]
    /\ UNCHANGED <<detectors, prepared, initializing, detectorCounts>>

-----------------------------------------------------------------------------
DetectorsNext ==
    \/ \E n \in DetectorNames : RegisterDetector(n) \/ UnregisterDetector(n)
    \/ \E n \in DetectorNames, on \in BOOLEAN : SetEnabled(n, on)
    \/ InitializeAllDetectors
    \/ \E fails \in BOOLEAN : InitializeDetector(fails)
    \/ InitializeAllEnds
    \/ ShutdownAllDetectors
    \/ \E e \in AnalyzedEvents : BeginAnalysis(e)
    \/ SkipDetector \/ DetectorRaises \/ AnalysisCancelled \/ AnalysisReturns
    \/ \E finds \in BOOLEAN : DetectorAnswers(finds)

DetectorsSpec == DetectorsInit /\ [][DetectorsNext]_detectorVars

-----------------------------------------------------------------------------
(* Types of the state; a detector is listed once. *)
DetectorsTypeOK ==
    /\ detectors \in Seq([name : DetectorNames, enabled : BOOLEAN])
    /\ Len(detectors) = Cardinality(Registered)
    /\ prepared \subseteq DetectorNames
    /\ initializing \in [running : BOOLEAN, todo : Seq(DetectorNames)]
    /\ analysis \in Analyses
    /\ detectorCounts \in [{"calls", "analyzed", "skipped", "failed", "detections"} -> Nat]

(* What analyze() returns holds a result of every detector that was        *)
(* enabled when it began and can process the event, in the order of        *)
(* registration, but of those that raised or found nothing: neither        *)
(* another detector's failure nor a change of the registry during an await *)
(* loses or adds one (manager.py, analyze).                                *)
Wanted(a) == {n \in DetectorNames : CanProcess(n, a.event) /\ n \notin a.failed \cup a.silent}
ResultsAreComplete ==
    analysis.phase = "returned" => analysis.results = Sifted(analysis.began, Wanted(analysis))
=============================================================================
