----------------------------- MODULE CaseVersions -----------------------------
(* The versions of one test case.  Creating, editing and restoring a case     *)
(* write a snapshot as the new current version, and so does an explicit       *)
(* request.  Where columns of the case itself change, its row is flushed      *)
(* before the versions are touched and so held until the commit.  A snapshot, *)
(* or a change of nothing but steps, suites and links, holds only the         *)
(* versions it marks: a statement that waited for one looks at it again, but  *)
(* not for versions that are new.                                             *)
EXTENDS Naturals, Sequences

CONSTANTS
    Rows,               \* what the row of a test case may hold
    Others,             \* what its steps, suites and trace links may be
    MaxVersions,        \* bound on the versions
    VersionThreads      \* threads serving requests

Contents == [row : Rows, others : Others]

ASSUME VersionAssumption == Rows # {} /\ Others # {} /\ MaxVersions \in Nat

VARIABLES
    content,            \* the TestCase row, and the rows that hang on it
    versions,           \* its TestCaseVersion rows by version_no
    versionJob,         \* what each thread is doing
    versionRaced,       \* history: a request ran while another one was running
    unguarded,          \* history: a request that overlapped did not write the row
    drifted             \* history: the case was written without a version

caseRows == <<content, versions>>
versionVars == <<caseRows, versionJob, versionRaced, unguarded, drifted>>

NoVersion == [at |-> "none"]
Busy(t) == versionJob[t] # NoVersion
CurrentVersions == {n \in DOMAIN versions : versions[n].current}

\* A case comes with its first version, or without from a generator or a copy.
VersionsInit ==
    /\ content \in Contents
    /\ versions \in {<<[snapshot |-> content, current |-> TRUE]>>, << >>}
    /\ versionJob = [t \in VersionThreads |-> NoVersion]
    /\ versionRaced = FALSE
    /\ unguarded = FALSE
    /\ drifted = FALSE

Goto(t, job) ==
    /\ versionJob' = [versionJob EXCEPT ![t] = job]
    /\ UNCHANGED <<versionRaced, unguarded, drifted>>

\* Mutant: the request writes the row at its commit.
NeverEarly(job) == FALSE

\* The request holds the row of the case while it touches the versions.
WritesCase(job) == job.new.row # job.saw.row

\* Bound: after two requests have overlapped no further one begins.
BeginVersion(t, new) ==
    LET job == [at |-> "loaded", saw |-> content, new |-> new, ends |-> {}, number |-> 0]
        others == {o \in VersionThreads \ {t} : Busy(o)}
    IN  /\ ~Busy(t)
        /\ ~versionRaced
        /\ Len(versions) < MaxVersions
        /\ versionRaced' = (others # {})
        /\ unguarded' = \E o \in others : \/ new.row = content.row
                                        \/ versionJob[o].new.row = versionJob[o].saw.row
        /\ versionJob' = [versionJob EXCEPT ![t] = job]
        /\ UNCHANGED <<caseRows, drifted>>

EditCase(t) == \E new \in Contents : BeginVersion(t, new)
TakeSnapshot(t) == BeginVersion(t, content)
RestoreVersion(t) == \E n \in DOMAIN versions : BeginVersion(t, versions[n].snapshot)

\* The row of the case is flushed, and the statement that ends the current
\* versions begins with those it finds.
FlushCase(t) ==
    /\ versionJob[t].at = "loaded"
    /\ WritesCase(versionJob[t]) => \A o \in VersionThreads \ {t} :
           versionJob[o].at \in {"marking", "marked", "numbered"} => ~WritesCase(versionJob[o])
    /\ Goto(t, [versionJob[t] EXCEPT !.at = "marking", !.ends = CurrentVersions])
    /\ UNCHANGED caseRows

\* It waits for rows that another request has marked, and marks what is still
\* current of those it found.
MarkVersions(t) ==
    /\ versionJob[t].at = "marking"
    /\ \A o \in VersionThreads \ {t} :
           versionJob[o].at \in {"marked", "numbered"}
               => versionJob[o].ends \cap versionJob[t].ends = {}
    /\ Goto(t, [versionJob[t] EXCEPT !.at = "marked", !.ends = @ \cap CurrentVersions])
    /\ UNCHANGED caseRows

NextNumber(t) ==
    /\ versionJob[t].at = "marked"
    /\ Goto(t, [versionJob[t] EXCEPT !.at = "numbered", !.number = Len(versions) + 1])
    /\ UNCHANGED caseRows

\* The commit, unless the number was given out meanwhile.  Where requests
\* overlapped the steps may be those of both: nothing is said of them then.
CommitVersion(t) ==
    /\ versionJob[t].at = "numbered"
    /\ LET job == versionJob[t]
           ended == [n \in DOMAIN versions |->
                        [versions[n] EXCEPT !.current = @ /\ n \notin job.ends]]
       IN  IF job.number \in DOMAIN versions
           THEN UNCHANGED caseRows
           ELSE /\ versions' = Append(ended, [snapshot |-> job.new, current |-> TRUE])
                /\ content' = [p \in DOMAIN content |->
                       IF job.new[p] # job.saw[p] THEN job.new[p] ELSE content[p]]
    /\ Goto(t, NoVersion)

\* Steps, links and approvals change the case without a version.
ChangeCase(c) ==
    /\ ~versionRaced
    /\ content' = c
    /\ drifted' = TRUE
    /\ UNCHANGED <<versions, versionJob, versionRaced, unguarded>>

VersionsNext ==
    \/ \E t \in VersionThreads :
        \/ EditCase(t) \/ TakeSnapshot(t) \/ RestoreVersion(t)
        \/ FlushCase(t) \/ MarkVersions(t) \/ NextNumber(t) \/ CommitVersion(t)
    \/ \E c \in Contents : ChangeCase(c)

VersionsSpec == VersionsInit /\ [][VersionsNext]_versionVars

------------------------------------------------------------------------------
VersionsTypeOK ==
    /\ content \in Contents
    /\ versions \in Seq([snapshot : Contents, current : BOOLEAN])
    /\ versionRaced \in BOOLEAN /\ unguarded \in BOOLEAN /\ drifted \in BOOLEAN

\* A case that has versions has a current one, and only its last one is current
\* unless a request overlapped with one that did not write the row of the case,
\* such as a snapshot or a change of suites.  While requests do not overlap and
\* all changes make versions, the current version shows the case as it is.
VersionsAgree ==
    /\ versions # << >> => CurrentVersions # {}
    /\ ~unguarded => CurrentVersions \subseteq {Len(versions)}
    /\ ~versionRaced /\ ~drifted /\ versions # << >> =>
           versions[Len(versions)].snapshot = content
==============================================================================
