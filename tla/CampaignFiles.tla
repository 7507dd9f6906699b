--------------------------- MODULE CampaignFiles ---------------------------
(***************************************************************************)
(* The two parts that move the files of a campaign while others use them:  *)
(* its reset (CampaignReset) and the publication of its report             *)
(* (ReportPublisher).  They share no state.  A behaviour is one of one of  *)
(* them, chosen by part; the variables of the other keep their initial     *)
(* values.  Of a part, those who are in the cast take part: journals,      *)
(* verifiers, late workers (by the root they make), publishers and         *)
(* commands.                                                               *)
(***************************************************************************)
EXTENDS Naturals

CONSTANTS
    Journals, Archives, ArchiveOf, GuardOf, Committers, Verifiers, Files,
    StrayRoots, PinMarker, MaxCrashes, MaxGates,
    CellOrder, Publishers, Commands, MaxAttempts, MaxCommands, MaxFaults,
    MaxDeaths, None,
    Casts       \* [Parts -> the casts of a part]

VARIABLES part, cast,
    at, journal, archived, pub, proc, marker, gate, check, crashes, gates,
    current, docs, manifest, writer, lease, cycle, cmd, torn, between, commands,
    faults, deaths

Reset == INSTANCE CampaignReset

Pub == INSTANCE ReportPublisher WITH
    pub <- cycle, MaxCrashes <- MaxDeaths, crashes <- deaths

PartsAssumption == Reset!ResetAssumption /\ Pub!PublisherAssumption

Parts == {"reset", "report"}
resets == <<at, journal, archived, pub, proc, marker, gate, check, crashes, gates>>
reports == <<current, docs, manifest, writer, lease, cycle, cmd, torn, between,
    commands, faults, deaths>>
vars == <<part, cast, resets, reports>>

Init == part \in Parts /\ cast \in Casts[part] /\ Reset!Init /\ Pub!Init

\* Who is not in the cast does nothing.
Absent ==
    /\ \A j \in Journals \ cast : journal'[j] = journal[j]
    /\ \A v \in Verifiers \ cast : check'[v] = check[v]
    /\ \A k \in StrayRoots \ cast : ~Reset!StrayWorker(k)
    /\ \A p \in Publishers \ cast : cycle'[p] = cycle[p]
    /\ \A k \in Commands \ cast : cmd'[k] = cmd[k]

Next ==
    /\ UNCHANGED <<part, cast>>
    /\ \/ part = "reset" /\ Reset!Next /\ UNCHANGED reports
       \/ part = "report" /\ Pub!Next /\ UNCHANGED resets
    /\ Absent

\* The fairness that each module states of itself.
Fairness ==
    /\ \A q \in Committers : WF_resets(part = "reset" /\ Reset!CommitStep(q))
    /\ \A j \in Journals : WF_resets(part = "reset" /\ \E q \in Committers : Reset!Call(q, j))
    /\ \A p \in Publishers : WF_reports(part = "report" /\ Pub!PublisherStep(p))
    /\ WF_reports(part = "report" /\ \E p \in Publishers : Pub!Start(p))
    /\ \A k \in Commands : WF_reports(part = "report" /\ Pub!CommandStep(k))
Spec == Init /\ [][Next]_vars /\ Fairness

----------------------------------------------------------------------------
TypeOK == Reset!TypeOK /\ Pub!TypeOK

\* Files in use stay whole: no reset loses a directory or has it twice, a
\* committed reset has all its directories, a READY campaign can be loaded; a
\* publisher captured pointers that were once true, tables show the caches, and
\* a report that validates is whole.
FilesStayWhole ==
    /\ Reset!NothingLost /\ Reset!CommittedIsWhole /\ Reset!ReadyIsLoadable
    /\ Pub!CaptureExisted /\ Pub!TablesShowCaches /\ Pub!ValidIsWhole

\* What is published never goes back: not to the staged report by a reset that
\* is called twice, and not to an earlier snapshot by another publisher.
NothingGoesBack == Reset!RepeatIsIdempotent /\ Pub!ManifestForward

\* The only reset of a campaign is prepared.
Prepared == \E j \in Journals : journal[j] = "PREPARED"
Rivalled == \E j, k \in Journals : j # k /\ "none" \notin {journal[j], journal[k]}
Committed == \E j \in Journals : journal[j] = "COMMITTED"

\* A prepared reset is committed however its processes die, unless another one
\* was prepared for the same destination or a late worker of the old campaign
\* made a root again; and once everything comes to rest the report is that of
\* the current pointers.
EverythingSettles ==
    /\ Prepared ~> (Committed \/ Rivalled \/ ~Reset!NoStray)
    /\ part = "report" ~> [](Pub!Converged)
=============================================================================
