---------------------------- MODULE InspectSample ----------------------------
(***************************************************************************)
(* The samples of an Inspect task (integrations/inspect.py): each builds   *)
(* the image it needs unless there is one or somebody builds it, creates   *)
(* its sandbox, runs, and is cleaned up; the task cleans up what is left.  *)
(* All of it runs on one event loop, where Inspect may cancel a sample at  *)
(* any point of its initialisation.                                        *)
(*                                                                         *)
(* The samples here need the same image.  The gateway is not in this       *)
(* repository: builds and sandboxes, and what the requests do to them,     *)
(* model what the provider relies on: a request whose answer was lost has  *)
(* been served or never will be, and the build found by the name of an     *)
(* image is the newest.                                                    *)
(***************************************************************************)
EXTENDS BuildContext

CONSTANTS Sample,
          MaxSubmits, (* submissions of each sample                        *)
          None

ASSUME SampleAssumption ==
    /\ IsFiniteSet(Sample)
    /\ MaxSubmits \in [Sample -> Nat \ {0}]
    /\ Entry = UNION {{s} \X (1..MaxSubmits[s]) : s \in Sample}
    /\ None \notin Sample

VARIABLES at,         (* where the sample is                               *)
          submits,    (* submissions it began                              *)
          known,      (* known_build_ids                                   *)
          building,   (* the build it waits for                            *)
          registry,   (* _running_sandboxes                                *)
          warned,     (* a failed deletion was logged by sample_init       *)
          task,       (* running, cleaning, cleaned, or kept               *)
          todo,       (* sandboxes task_cleanup has not come to            *)
          failures,   (* of task_cleanup                                   *)
          builds,     (* gateway: the builds of the image                  *)
          sandboxes,  (* gateway: the sandboxes                            *)
          blind,      (* samples a look for a build of which failed        *)
          old         (* builds that had ended when the sample began       *)

buildVars == <<submits, known, building>>
sampleVars == <<at, buildVars>>
taskVars == <<registry, warned, task, todo, failures>>
gatewayVars == <<builds, sandboxes, blind, old>>
vars == <<contextVars, sampleVars, taskVars, gatewayVars>>

(* The list of the builds was not read, or there is none.                  *)
Unlisted == [listed |-> FALSE, ids |-> {}]

Place == {"new", "active", "looking", "known", "context", "recovering", "building",
          "creating", "cleaning", "running", "deleting", "ended", "failed", "cancelled"}

Build == [owner : Sample \cup {None}, status : {"running", "succeeded", "failed"}]

InspectTypeOK ==
    /\ ContextTypeOK
    /\ at \in [Sample -> Place]
    /\ submits \in [Sample -> Nat] /\ \A s \in Sample : submits[s] <= MaxSubmits[s]
    /\ known \in [Sample -> [listed : BOOLEAN, ids : SUBSET Nat]]
    /\ building \in [Sample -> Nat]
    /\ UNION {registry, warned, todo, failures, sandboxes, blind} \subseteq Sample
    /\ task \in {"running", "cleaning", "cleaned", "kept"}
    /\ builds \in Seq(Build)

Init ==
    /\ ContextInit
    /\ at = [s \in Sample |-> "new"]
    /\ submits = [s \in Sample |-> 0]
    /\ known = [s \in Sample |-> Unlisted]
    /\ building = [s \in Sample |-> 0]
    /\ registry = {}
    /\ warned = {}
    /\ task = "running"
    /\ todo = {}
    /\ failures = {}
    /\ builds \in {<<>>, <<[owner |-> None, status |-> "failed"]>>}
    /\ sandboxes = {}
    /\ blind = {}
    /\ old = DOMAIN builds

Goto(s, where) == at' = [at EXCEPT ![s] = where]
Terminal(b) == builds[b].status \in {"succeeded", "failed"}
Current(s) == <<s, submits[s]>>
-----------------------------------------------------------------------------
(* Finding or submitting the build: _build_image_with_wait.                *)

(* A read that failed counts as one that found nothing.                    *)
Blinded(s) == blind' = blind \cup {s}

(* _available_built_image                                                  *)
LookForImage(s) ==
    /\ at[s] = "new"
    /\ \/ /\ IF \E b \in DOMAIN builds : builds[b].status = "succeeded"
             THEN Goto(s, "creating") ELSE Goto(s, "active")
          /\ UNCHANGED blind
       \/ Goto(s, "active") /\ Blinded(s)
    /\ UNCHANGED <<contextVars, buildVars, taskVars,
                   builds, sandboxes, old>>

(* It waits for build b.                                                   *)
Adopt(s, b) ==
    /\ Goto(s, "building")
    /\ building' = [building EXCEPT ![s] = b]

Active == {b \in DOMAIN builds : ~Terminal(b)}
Newest == {b \in Active : \A c \in Active : c <= b}

(* _active_image_build: once before the loop, and again in each attempt.   *)
LookForBuild(s) ==
    /\ at[s] = "active" \/ at[s] = "looking"
    /\ LET next == IF at[s] = "active" THEN "looking" ELSE "known"
       IN  \/ \E b \in Newest : Adopt(s, b) /\ UNCHANGED blind
           \/ Active = {} /\ Goto(s, next) /\ UNCHANGED <<building, blind>>
           \/ Goto(s, next) /\ Blinded(s) /\ UNCHANGED building
    /\ UNCHANGED <<contextVars, submits, known, taskVars, builds, sandboxes, old>>

(* _known_image_build_ids, and submit_image_build asks for a place.        *)
StartSubmission(s) ==
    /\ at[s] = "known" /\ submits[s] < MaxSubmits[s]
    /\ \/ known' = [known EXCEPT ![s] = [listed |-> TRUE, ids |-> DOMAIN builds]]
          /\ UNCHANGED blind
       \/ known' = [known EXCEPT ![s] = Unlisted] /\ Blinded(s)
    /\ submits' = [submits EXCEPT ![s] = @ + 1]
    /\ Ask(<<s, submits'[s]>>)
    /\ Goto(s, "context")
    /\ UNCHANGED <<building, taskVars, builds, sandboxes, old>>

Prepare(s) ==
    /\ at[s] = "context"
    /\ Submit(Current(s)) \/ Receive(Current(s))
    /\ UNCHANGED <<sampleVars, taskVars, gatewayVars>>

(* What the search for the build learned is forgotten with it.             *)
Leaves(s, where) ==
    /\ Goto(s, where)
    /\ submits' = [submits EXCEPT ![s] = 0]
    /\ known' = [known EXCEPT ![s] = Unlisted]
    /\ building' = [building EXCEPT ![s] = 0]

(* The archive could not be made.                                          *)
ContextFails(s) ==
    /\ at[s] = "context" /\ job[Current(s)] = "failed"
    /\ Leave(Current(s))
    /\ Leaves(s, "cleaning")
    /\ UNCHANGED <<taskVars, gatewayVars>>

Accepted(s) == builds' = Append(builds, [owner |-> s, status |-> "running"])

(* The context is uploaded and the build submitted.  The build is          *)
(* accepted; the request is refused for good, or for now (no builder is    *)
(* ready); or it fails and may have been accepted all the same.            *)
Post(s) ==
    /\ at[s] = "context" /\ stage[Current(s)] = "using"
    /\ Close(Current(s))
    /\ \/ Accepted(s) /\ Adopt(s, Len(builds')) /\ UNCHANGED <<submits, known>>
       \/ Leaves(s, "cleaning") /\ UNCHANGED builds
       \/ Goto(s, "looking") /\ UNCHANGED <<buildVars, builds>>
       \/ /\ Goto(s, "recovering")
          /\ Accepted(s) \/ UNCHANGED builds
          /\ UNCHANGED buildVars
    /\ UNCHANGED <<taskVars, sandboxes, blind, old>>

(* A variant with a bug: a build that has ended is never the one.          *)
MatchesRunning(s, b) == ~Terminal(b)

(* _recovered_build_matches_attempt                                        *)
Matches(s, b) == ~Terminal(b) \/ (known[s].listed /\ b \notin known[s].ids)

(* A read of _recover_submitted_image_build, and what comes of it.         *)
Recover(s) ==
    /\ at[s] = "recovering"
    /\ \/ /\ IF \E b \in DOMAIN builds : b = Len(builds) /\ Matches(s, b)
             THEN Adopt(s, Len(builds)) /\ UNCHANGED <<submits, known>>
             ELSE Goto(s, "looking") /\ UNCHANGED buildVars
          /\ UNCHANGED blind
       \/ /\ Blinded(s)
          /\ \/ at' = at /\ UNCHANGED buildVars
             \/ Goto(s, "looking") /\ UNCHANGED buildVars
             \/ Leaves(s, "cleaning")
    /\ UNCHANGED <<contextVars, taskVars, builds, sandboxes, old>>

(* The deadline of the build passes: whatever waits for the build, a place *)
(* or an archive gives up.  A recovery ends, and the loop it returns to.   *)
Expire(s) ==
    /\ \/ at[s] \in {"looking", "recovering", "building"} /\ UNCHANGED contextVars
       \/ at[s] = "context" /\ stage[Current(s)] # "using" /\ Leave(Current(s))
    /\ Leaves(s, "cleaning")
    /\ UNCHANGED <<taskVars, gatewayVars>>

(* wait_for_image_build; its polls are repeated after transient errors.    *)
Built(s) ==
    /\ at[s] = "building"
    /\ \/ /\ Terminal(building[s])
          /\ Leaves(s, IF builds[building[s]].status = "succeeded" THEN "creating"
                       ELSE "cleaning")
       \/ Leaves(s, "cleaning")
    /\ UNCHANGED <<contextVars, taskVars, gatewayVars>>
-----------------------------------------------------------------------------
(* The sandbox of the sample.                                              *)

(* It is registered in the step in which the answer arrives.               *)
Create(s) ==
    /\ at[s] = "creating"
    /\ \/ /\ sandboxes' = sandboxes \cup {s}
          /\ registry' = registry \cup {s}
          /\ Goto(s, "running")
       \/ /\ sandboxes' \in {sandboxes, sandboxes \cup {s}}
          /\ Goto(s, "cleaning")
          /\ UNCHANGED registry
    /\ UNCHANGED <<contextVars, buildVars,
                   warned, task, todo, failures, builds, blind, old>>

(* A deletion, with its retries: it is answered (404 if it was repeated),  *)
(* or gives up, and then the sandbox may be gone or not.                   *)
Deleted(s) == sandboxes' = sandboxes \ {s}
DeletionFails(s) == sandboxes' \in {sandboxes, sandboxes \ {s}}

(* The handler of sample_init: whatever failed, the sandbox is deleted.    *)
CleanUpInit(s) ==
    /\ at[s] = "cleaning"
    /\ \/ Deleted(s) /\ UNCHANGED warned
       \/ DeletionFails(s) /\ warned' = warned \cup {s}
    /\ Goto(s, "failed")
    /\ UNCHANGED <<contextVars, buildVars,
                   registry, task, todo, failures, builds, blind, old>>

(* sample_init is cancelled: the handler, which is for Exception, does not *)
(* run.  A request under way may still be served.                          *)
Cancel(s) ==
    /\ at[s] \in {"new", "active", "looking", "known", "context", "recovering",
                  "building", "creating", "cleaning"}
    /\ IF at[s] = "context" THEN Leave(Current(s)) ELSE UNCHANGED contextVars
    /\ \/ UNCHANGED <<builds, sandboxes>>
       \/ /\ at[s] = "context" /\ stage[Current(s)] = "using"
          /\ Accepted(s) /\ UNCHANGED sandboxes
       \/ at[s] = "creating" /\ sandboxes' = sandboxes \cup {s} /\ UNCHANGED builds
       \/ at[s] = "cleaning" /\ Deleted(s) /\ UNCHANGED builds
    /\ Leaves(s, "cancelled")
    /\ UNCHANGED <<taskVars, blind, old>>

(* sample_cleanup of an interrupted sample leaves it to task_cleanup.      *)
EndSample(s) ==
    /\ at[s] = "running"
    /\ Goto(s, "ended") \/ Goto(s, "deleting")
    /\ UNCHANGED <<contextVars, buildVars, taskVars, gatewayVars>>

(* A variant with a bug: the record goes whether or not the sandbox did.   *)
DeleteSampleAnyway(s) ==
    /\ at[s] = "deleting"
    /\ Deleted(s) \/ DeletionFails(s)
    /\ registry' = registry \ {s}
    /\ Goto(s, "ended")
    /\ UNCHANGED <<contextVars, buildVars,
                   warned, task, todo, failures, builds, blind, old>>

DeleteSample(s) ==
    /\ at[s] = "deleting"
    /\ \/ Deleted(s) /\ registry' = registry \ {s}
       \/ DeletionFails(s) /\ UNCHANGED registry
    /\ Goto(s, "ended")
    /\ UNCHANGED <<contextVars, buildVars,
                   warned, task, todo, failures, builds, blind, old>>
-----------------------------------------------------------------------------
(* task_cleanup, over a copy of the registry; without cleanup it returns.  *)
EndTask ==
    /\ task = "running"
    /\ \A s \in Sample : at[s] \in {"ended", "failed", "cancelled"}
    /\ \/ task' = "cleaning" /\ todo' = registry
       \/ task' = "kept" /\ UNCHANGED todo
    /\ UNCHANGED <<contextVars, sampleVars, registry, warned, failures, gatewayVars>>

DeleteLeftFails(s) ==
    /\ DeletionFails(s)
    /\ failures' = failures \cup {s}
    /\ todo' = todo \ {s}
    /\ UNCHANGED registry

DeleteLeft(s) ==
    /\ task = "cleaning" /\ s \in todo
    /\ \/ /\ Deleted(s)
          /\ registry' = registry \ {s}
          /\ todo' = todo \ {s}
          /\ UNCHANGED failures
       \/ DeleteLeftFails(s)
    /\ UNCHANGED <<contextVars, sampleVars, warned, task, builds, blind, old>>

TaskCleaned ==
    /\ task = "cleaning" /\ todo = {}
    /\ task' = "cleaned"
    /\ UNCHANGED <<contextVars, sampleVars, registry, warned, todo, failures, gatewayVars>>

(* cli_cleanup, from another process, while the task runs or after it.     *)
CliCleanup(s) ==
    /\ s \in sandboxes
    /\ Deleted(s)
    /\ UNCHANGED <<contextVars, sampleVars, taskVars, builds, blind, old>>

(* The gateway finishes a build.                                           *)
FinishBuild(b) ==
    /\ ~Terminal(b)
    /\ \E end \in {"succeeded", "failed"} : builds' = [builds EXCEPT ![b].status = end]
    /\ UNCHANGED <<contextVars, sampleVars, taskVars, sandboxes, blind, old>>

SampleStep(s) ==
    \/ LookForImage(s) \/ LookForBuild(s) \/ StartSubmission(s)
    \/ Prepare(s) \/ ContextFails(s) \/ Post(s) \/ Recover(s)
    \/ Expire(s) \/ Built(s)
    \/ Create(s) \/ CleanUpInit(s) \/ Cancel(s) \/ EndSample(s) \/ DeleteSample(s)

Done == task \in {"cleaned", "kept"} /\ UNCHANGED vars

Next ==
    \/ \E s \in Sample : SampleStep(s) \/ DeleteLeft(s) \/ CliCleanup(s)
    \/ EndTask \/ TaskCleaned \/ Done
    \/ \E b \in DOMAIN builds : FinishBuild(b)
    \/ Background /\ UNCHANGED <<sampleVars, taskVars, gatewayVars>>

Spec == Init /\ [][Next]_vars
-----------------------------------------------------------------------------
(* A sample never takes the end of a build that had ended before it began  *)
(* for the end of its own, and as long as its looks for a build are        *)
(* answered it has no second build accepted: whether or not the answer to  *)
(* its submission is lost, and however fast the build ends.                *)
RightBuild ==
    \A s \in Sample :
       /\ at[s] = "building" => building[s] \notin old
       /\ s \notin blind => Cardinality({b \in DOMAIN builds : builds[b].owner = s}) <= 1

(* After the task was cleaned up, a sandbox is left only if somebody was   *)
(* told (a logged warning, the error task_cleanup raises) or its           *)
(* initialisation was cancelled, though samples fail, are interrupted, or  *)
(* cannot be deleted.                                                      *)
NothingForgotten ==
    task = "cleaned" =>
       sandboxes \subseteq warned \cup failures \cup {s \in Sample : at[s] = "cancelled"}
=============================================================================
