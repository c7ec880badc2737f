------------------------------- MODULE Client -------------------------------
(***************************************************************************)
(* How the command line client lists jobs (src/src/bin/client/main.rs,     *)
(* list_jobs): `job ls`, and every command that is given the jid `last`.   *)
(* A listing is one ListJobs request followed by a JobStatus or StatTag    *)
(* request for each thing to be shown, while the server goes on and other  *)
(* clients are served in between: what an answer says may be out of date   *)
(* when the next one is asked for.                                         *)
(***************************************************************************)
EXTENDS Server, Sequences

CONSTANTS Modes,       \* how this client lists
          SuffixLen    \* the argument of -n

ASSUME ClientAssumption ==
    /\ Modes \subseteq {"suffix", "suffix_running", "last"}
    /\ SuffixLen \in Nat

(* at: idle; running, matrices, tags: what ListJobs reads next; any_tags;  *)
(* choose; next, lump, members: working through the ids; done.             *)
VARIABLE client

clientVars == <<vars, client>>

IdleClient == [at |-> "idle", mode |-> "suffix", known |-> {}, jids |-> {},
               running |-> {}, matrices |-> EmptyMap, tags |-> {}, asked |-> {},
               any_tags |-> EmptyMap, specified |-> {}, left |-> {},
               processed_tags |-> {}, item |-> None, members |-> {}, info |-> << >>]

ClientInit == Init /\ client = IdleClient

Least(S)    == CHOOSE x \in S : \A y \in S : x <= y
Greatest(S) == CHOOSE x \in S : \A y \in S : x >= y

-----------------------------------------------------------------------------
(* The ListJobs request: four critical sections on the listener thread.    *)
Serving == client.at \in {"running", "matrices", "tags"}
Answered == ~panicked /\ listener.at = "idle" /\ ~WorkerHoldsLocks

BeginListing(mode) ==
    /\ Answered /\ client.at = "idle"
    /\ client' = [IdleClient EXCEPT !.at = "running", !.mode = mode, !.known = DOMAIN tasks,
                     !.jids = {j \in DOMAIN tasks : tasks[j].matrix = None}]

ReadRunning ==
    /\ Answered /\ client.at = "running"
    /\ client' = [client EXCEPT !.at = "matrices",
                     !.running = {j \in DOMAIN tasks : tasks[j].state = "Running"}]

ReadMatrices == /\ Answered /\ client.at = "matrices"
                /\ client' = [client EXCEPT !.at = "tags", !.matrices = matrices]

ReadTags == /\ Answered /\ client.at = "tags"
            /\ client' = [client EXCEPT !.tags = DOMAIN tags,
                             !.at = IF client.mode = "suffix_running" THEN "any_tags"
                                    ELSE "choose"]

-----------------------------------------------------------------------------
(* SuffixRunning asks for the tag of every running job. *)
AskTag ==
    LET j == Least(client.running \ client.asked) IN
    /\ Answered /\ client.at = "any_tags" /\ client.running \ client.asked # {}
    /\ client' = [client EXCEPT !.asked = @ \cup {j},
                     !.any_tags = IF j \in DOMAIN tasks /\ tasks[j].tag # None
                                  THEN Put(@, j, tasks[j].tag) ELSE @]
TagsAsked == /\ client.at = "any_tags" /\ client.running \subseteq client.asked
             /\ client' = [client EXCEPT !.at = "choose"]

(* A running job is shown as its matrix, or its tag, or itself. *)
ShownAs(j) ==
    LET of == {m \in DOMAIN client.matrices : j \in client.matrices[m]} IN
    IF of # {} THEN Least(of)
    ELSE IF j \in DOMAIN client.any_tags THEN client.any_tags[j] ELSE j

(* The newest job.  Wrong variant: those in matrices are not looked at.    *)
NewestSingle == Greatest({0} \cup client.jids)
Newest == Greatest(client.jids \cup {IF client.matrices[m] = {} THEN 0
                                     ELSE Greatest(client.matrices[m]) :
                                        m \in DOMAIN client.matrices})

Specified == CASE client.mode = "suffix" -> {}
               [] client.mode = "suffix_running" -> {ShownAs(j) : j \in client.running}
               [] client.mode = "last" -> {Newest}

(* The last SuffixLen ids of jobs and matrices.  Wrong variant: of jobs.   *)
CountedJobs == client.jids
Counted     == client.jids \cup DOMAIN client.matrices
Selected == IF client.mode = "last" THEN {}
            ELSE {i \in Counted : Cardinality({k \in Counted : k > i}) < SuffixLen}

(* Wrong variant: the running ones are asked for and then forgotten. *)
SelectedOnly == Selected
ToShow       == Selected \cup Specified

(* With no job and no matrix, `last` fails: expect("No last task exists.") *)
ChooseIds ==
    /\ client.at = "choose"
    /\ client' = IF client.mode = "last" /\ Counted = {}
                 THEN [client EXCEPT !.at = "done"]
                 ELSE [client EXCEPT !.at = "next", !.specified = Specified, !.left = ToShow]

-----------------------------------------------------------------------------
(* The ids in increasing order. *)
Id   == Least(client.left)
Next_(kind) == /\ client.at = "next" /\ client.left # {}
               /\ CASE kind = "matrix" -> Id \in DOMAIN client.matrices
                    [] kind = "tag" -> Id \in client.tags \ DOMAIN client.matrices
                    [] kind = "job" -> Id \notin client.tags \cup DOMAIN client.matrices

(* Show this item once its members have been looked up. *)
Expand(kind, id, jids) ==
    [client EXCEPT !.at = "members", !.members = jids, !.left = @ \ {Id},
                   !.item = [kind |-> kind, id |-> id, jobs |-> {}]]
(* A tag that was shown is not shown again.  Wrong variant: only for tags  *)
(* reached through one of their jobs.                                      *)
RememberLumped(t) == IF t = Id THEN client.processed_tags ELSE client.processed_tags \cup {t}
Remember(t)       == client.processed_tags \cup {t}
ExpandTag(t) == [Expand("tag", t, tags[t]) EXCEPT !.processed_tags = Remember(t)]

ShowMatrix == /\ Next_("matrix")
              /\ client' = Expand("matrix", Id, client.matrices[Id])

ShowTag == /\ Next_("tag") /\ Answered
           /\ Id \in DOMAIN tags
           /\ client' = ExpandTag(Id)

(* A tagged job that was not asked for is shown under its tag. *)
ShowJob ==
    LET t == IF Id \in DOMAIN tasks THEN tasks[Id].tag ELSE None
        next == [client EXCEPT !.left = @ \ {Id}]
    IN /\ Next_("job") /\ Answered
       /\ client' =
            IF Id \notin DOMAIN tasks THEN next
            ELSE IF t = None \/ Id \in client.specified
                 THEN [next EXCEPT !.info = Append(@, [kind |-> "job", id |-> Id, jobs |-> {Id}])]
            ELSE IF t \in client.processed_tags THEN next
            ELSE [client EXCEPT !.at = "lump", !.item = t]

Lump == /\ client.at = "lump" /\ Answered
        /\ client.item \in DOMAIN tags
        /\ client' = ExpandTag(client.item)

AskMember ==
    LET j == Least(client.members) IN
    /\ Answered /\ client.at = "members" /\ client.members # {}
    /\ client' = [client EXCEPT !.members = @ \ {j},
                     !.item.jobs = IF j \in DOMAIN tasks THEN @ \cup {j} ELSE @]
EndItem ==
    /\ client.at = "members" /\ client.members = {}
    /\ client' = [client EXCEPT !.at = "next", !.item = None,
                                !.info = Append(@, client.item)]

EndListing == /\ client.at = "next" /\ client.left = {}
              /\ client' = [client EXCEPT !.at = "done"]

Listing == \/ \E mode \in Modes : BeginListing(mode)
           \/ ReadRunning \/ ReadMatrices \/ ReadTags
           \/ AskTag \/ TagsAsked \/ ChooseIds
           \/ ShowMatrix \/ ShowTag \/ ShowJob \/ Lump
           \/ AskMember \/ EndItem \/ EndListing

(* The listener thread serves one request at a time. *)
ClientNext ==
    \/ Listing /\ UNCHANGED vars
    \/ /\ \/ WorkThreadStep
          \/ ~Serving /\ NewRequest
          \/ FinishRequest
          \/ \E j \in DOMAIN handles \cup copying : Environment(j)
       /\ UNCHANGED client

ClientSpec == ClientInit /\ [][ClientNext]_clientVars

-----------------------------------------------------------------------------
Listed == UNION {client.info[i].jobs : i \in DOMAIN client.info}
(* Jobs that were there all the while (ids are not used twice). *)
Throughout == client.known \cap DOMAIN tasks

(* No job is listed twice, once by itself or in a matrix and once under a  *)
(* tag, or under a tag twice: the counts of print_summary would be wrong.  *)
(* (Where jobs are not retagged: see README, 5.)                           *)
ListedOnce ==
    client.at = "done" =>
        \A i, k \in DOMAIN client.info :
            i # k => client.info[i].jobs \cap client.info[k].jobs = {}

(* A listing long enough shows every job that was there throughout, by     *)
(* itself or in its matrix or under its tag, whatever happens meanwhile.   *)
ListingComplete ==
    client.at = "done" /\ client.mode = "suffix" /\ Cardinality(Counted) <= SuffixLen
    => Throughout \subseteq Listed

(* A plain `job ls` shows every job that is running throughout, however    *)
(* far back in the list (JobListMode::SuffixRunning).                      *)
RunningShown ==
    client.at = "done" /\ client.mode = "suffix_running"
    => \A j \in Throughout \cap client.running : tasks[j].state = "Running" => j \in Listed

(* "This will always be a job, and will always be the last job created"    *)
(* (JobListMode::Last): of the jobs there were when it was asked for.      *)
LastIsNewest ==
    client.at = "done" /\ client.mode = "last" /\ client.known # {}
    => \A i \in DOMAIN client.info :
          /\ client.info[i].kind = "job"
          /\ \A j \in Throughout : j <= client.info[i].id
=============================================================================
