------------------------------ MODULE GroupCreate ------------------------------
(***************************************************************************)
(* One create_sandbox_group call (client.py, _SandboxGroupCreate and the   *)
(* loops of both clients around it).  The identical request is repeated as *)
(* the gateway asks, each answer tells which members are placed, and the   *)
(* record of a member comes only with the answer that created it.  Members *)
(* can be used, and deleted, while the call goes on.                       *)
(*                                                                         *)
(* The gateway is not in this repository: member, and the actions          *)
(* ProcessGroup, DeleteMember and DeleteGroup, model what the clients rely *)
(* on.  The request loop below sends the request once (RequestRetry).      *)
(***************************************************************************)
EXTENDS Naturals, FiniteSets

CONSTANTS Member,         (* the sandboxes of the group                    *)
          Async,          (* the call is made on the asyncio client        *)
          GroupDeadline,  (* ticks of time for the whole call              *)
          Oversleeps,     (* a delay can outlast the deadline              *)
          NoAnswer

ASSUME GroupAssumption ==
    /\ IsFiniteSet(Member)
    /\ Async \subseteq BOOLEAN
    /\ GroupDeadline \in Nat
    /\ Oversleeps \in BOOLEAN

VARIABLES asyncio,     (* whose call it is                                 *)
          groupAt,     (* where the call is                                *)
          groupLeft,   (* ticks before its deadline                        *)
          last,        (* self.last: the member states of the last answer  *)
          records,     (* self.records                                     *)
          handles,     (* what it returned: the handles and their records  *)
          group,       (* the group attribute of the error it raised       *)
          reply,       (* the answer in flight                             *)
          member,      (* gateway: the state of each member                *)
          refused,     (* gateway: the group was deleted                   *)
          unheard      (* members whose creating answer listed no records  *)

callVars == <<asyncio, groupAt, groupLeft, last, records, handles, group>>
gatewayVars == <<reply, member, refused, unheard>>
groupVars == <<callVars, gatewayVars>>

(***************************************************************************)
(* returned     with a handle for each member                              *)
(* failed       SandboxGroupError                                          *)
(* unavailable  SandboxGroupUnavailableError                               *)
(* raw          any other exception: a TimeoutError, an error of aiohttp   *)
(***************************************************************************)
GroupEnded == {"returned", "failed", "unavailable", "raw"}

State == {"absent", "placed", "deleted"}
View  == [Member -> State]

(* complete: 200 or 201; partial: a retryable 503; broken: 502 or 409;     *)
(* busy: retryable but from an intermediary, without a list of members;    *)
(* unavailable: 404, 405 or 501.                                           *)
ReplyStatus == {"complete", "partial", "broken", "busy", "unavailable"}

Reply == [status : ReplyStatus, view : View, created : SUBSET Member]

ASSUME NoAnswerAssumption == NoAnswer \notin Member \cup View \cup Reply

GroupTypeOK ==
    /\ asyncio \in Async
    /\ groupAt \in {"posting", "sleeping"} \cup GroupEnded
    /\ groupLeft \in 0..GroupDeadline
    /\ last \in View \cup {NoAnswer}
    /\ records \subseteq Member
    /\ handles \in [made : SUBSET Member, recorded : SUBSET Member]
    /\ group \in View \cup {NoAnswer}
    /\ reply \in Reply \cup {NoAnswer}
    /\ member \in View
    /\ refused \in BOOLEAN
    /\ unheard \subseteq Member

GroupInit ==
    /\ asyncio \in Async
    /\ groupAt = "posting"
    /\ groupLeft = GroupDeadline
    /\ last = NoAnswer
    /\ records = {}
    /\ handles = [made |-> {}, recorded |-> {}]
    /\ group = NoAnswer
    /\ reply = NoAnswer
    /\ member = [m \in Member |-> "absent"]
    /\ refused = FALSE
    /\ unheard = {}

Placed(view) == {m \in Member : view[m] = "placed"}
-----------------------------------------------------------------------------
(* The gateway.                                                            *)

(* Some of the absent members are created, and the answer sent.            *)
ProcessGroup ==
    /\ groupAt = "posting"
    /\ reply = NoAnswer
    /\ \E created \in SUBSET {m \in Member : member[m] = "absent"},
          status \in ReplyStatus :
          /\ refused => created = {} /\ status = "broken"
          /\ status = "unavailable" => created = {}
          /\ member' = [m \in Member |-> IF m \in created THEN "placed" ELSE member[m]]
          /\ reply' = [status |-> status, view |-> member', created |-> created]
          /\ unheard' = IF status = "busy" THEN unheard \cup created ELSE unheard
    /\ UNCHANGED <<callVars, refused>>

(* A placed member is used, and deleted by its user.                       *)
DeleteMember(m) ==
    /\ member[m] = "placed"
    /\ member' = [member EXCEPT ![m] = "deleted"]
    /\ UNCHANGED <<callVars, reply, refused, unheard>>

(* delete_sandbox_group: no further members, and the placed ones deleted.  *)
DeleteGroup ==
    /\ ~refused
    /\ refused' = TRUE
    /\ member' = [m \in Member |-> IF member[m] = "placed" THEN "deleted" ELSE member[m]]
    /\ UNCHANGED <<callVars, reply, unheard>>
-----------------------------------------------------------------------------
(* The call.                                                               *)

(* accept: the answer is remembered, and the records it came with.         *)
Accept ==
    /\ last' = reply.view
    /\ records' = records \cup reply.created

GroupEnds(how) == groupAt' = how /\ reply' = NoAnswer

(* A variant with a bug: an error knows the members of its own answer only.*)
FailOwnAnswer(own) ==
    /\ GroupEnds("failed")
    /\ group' = own

(* error: the members of this answer, or those of the last one.            *)
Fail(own) ==
    /\ GroupEnds("failed")
    /\ group' = IF own = NoAnswer THEN last ELSE own

(* A variant with a bug: a success is not looked at.                       *)
ReturnedUnchecked ==
    /\ groupAt = "posting"
    /\ reply # NoAnswer /\ reply.status = "complete"
    /\ Accept
    /\ GroupEnds("returned")
    /\ handles' = [made |-> {m \in Member : reply.view[m] # "deleted"},
                   recorded |-> records \cup reply.created]
    /\ UNCHANGED <<asyncio, groupLeft, group, member, refused, unheard>>

(* handles: every member is placed or already deleted again.               *)
Returned ==
    /\ groupAt = "posting"
    /\ reply # NoAnswer /\ reply.status = "complete"
    /\ \A m \in Member : reply.view[m] # "absent"
    /\ Accept
    /\ GroupEnds("returned")
    /\ handles' = [made |-> Placed(reply.view),
                   recorded |-> (records \cup reply.created) \cap Placed(reply.view)]
    /\ UNCHANGED <<asyncio, groupLeft, group, member, refused, unheard>>

(* A success with unplaced members is an error.                            *)
Incomplete ==
    /\ groupAt = "posting"
    /\ reply # NoAnswer /\ reply.status = "complete"
    /\ \E m \in Member : reply.view[m] = "absent"
    /\ Accept
    /\ Fail(reply.view)
    /\ UNCHANGED <<asyncio, groupLeft, handles, member, refused, unheard>>

(* 404, 405 and 501 are taken for a gateway that does not create groups.   *)
Unavailable ==
    /\ groupAt = "posting"
    /\ reply # NoAnswer /\ reply.status = "unavailable"
    /\ GroupEnds("unavailable")
    /\ UNCHANGED <<asyncio, groupLeft, last, records, handles,
                   group, member, refused, unheard>>

(* An error that may not be repeated.                                      *)
Broken ==
    /\ groupAt = "posting"
    /\ reply # NoAnswer /\ reply.status = "broken"
    /\ Accept
    /\ Fail(reply.view)
    /\ UNCHANGED <<asyncio, groupLeft, handles, member, refused, unheard>>

(* A variant with a bug: the deadline is not looked at before the sleep.   *)
EnoughTimeAlways == TRUE

EnoughTime == groupLeft > 1

(* Sleep if the deadline allows it, and otherwise fail.                    *)
PauseOrFail(own) ==
    IF EnoughTime
    THEN /\ GroupEnds("sleeping")
         /\ groupLeft' = IF groupLeft > 0 THEN groupLeft - 1 ELSE 0
         /\ UNCHANGED group
    ELSE Fail(own) /\ UNCHANGED groupLeft

(* A retryable error, with members or without.                             *)
Partial ==
    /\ groupAt = "posting"
    /\ reply # NoAnswer /\ reply.status = "partial"
    /\ Accept
    /\ PauseOrFail(reply.view)
    /\ UNCHANGED <<asyncio, handles, member, refused, unheard>>

Busy ==
    /\ groupAt = "posting"
    /\ reply # NoAnswer /\ reply.status = "busy"
    /\ PauseOrFail(NoAnswer)
    /\ UNCHANGED <<asyncio, last, records, handles, member, refused, unheard>>

(* No connection: a SandboxApiError of both clients, not repeated here.    *)
Unreachable ==
    /\ groupAt = "posting"
    /\ reply = NoAnswer
    /\ Fail(NoAnswer)
    /\ UNCHANGED <<asyncio, groupLeft, last, records, handles,
                   member, refused, unheard>>

(* The connection breaks or times out before the answer is read.  The      *)
(* asyncio client lets the exception of aiohttp pass.  The synchronous one *)
(* makes a SandboxApiError of it, but not while it reads the body of an    *)
(* error reply, nor of a reply that http.client cannot read.               *)
Lost ==
    /\ groupAt = "posting"
    /\ \/ GroupEnds("raw") /\ UNCHANGED group
       \/ ~asyncio /\ Fail(NoAnswer)
    /\ UNCHANGED <<asyncio, groupLeft, last, records, handles,
                   member, refused, unheard>>

(* The sleep is over; it can have outlasted the deadline (request_timeout).*)
GroupWake ==
    /\ groupAt = "sleeping"
    /\ GroupEnds("posting") \/ (Oversleeps /\ GroupEnds("raw"))
    /\ UNCHANGED <<asyncio, groupLeft, last, records, handles,
                   group, member, refused, unheard>>
-----------------------------------------------------------------------------
CallStep ==
    \/ Returned \/ Incomplete \/ Unavailable \/ Broken
    \/ Partial \/ Busy \/ Unreachable \/ Lost
    \/ GroupWake

GroupDone == groupAt \in GroupEnded /\ UNCHANGED groupVars

GroupNext ==
    \/ CallStep
    \/ ProcessGroup
    \/ \E m \in Member : DeleteMember(m)
    \/ DeleteGroup
    \/ GroupDone

(* A request is answered, or times out; delays end.                        *)
GroupSpec == GroupInit /\ [][GroupNext]_groupVars /\ WF_groupVars(CallStep)
-----------------------------------------------------------------------------
(* A call that returns has created every member, and hands out a handle    *)
(* for each that is not deleted again by then, with the record of every    *)
(* member whose record ever reached the client, in whichever answer.       *)
EveryMemberHandled ==
    groupAt = "returned" =>
        /\ \A m \in Member : member[m] # "absent"
        /\ Placed(member) \subseteq handles.made
        /\ handles.made \subseteq handles.recorded \cup unheard

(* A SandboxGroupError knows every member that any answer of the call      *)
(* showed placed, also when the last attempt brought no answer, or one     *)
(* without members.                                                        *)
ErrorKnowsMembers ==
    groupAt = "failed" /\ last # NoAnswer
        => group # NoAnswer /\ Placed(last) \subseteq Placed(group)

(* The call ends, however often the gateway asks for the request again.    *)
CallEnds == <>(groupAt \in GroupEnded)

(* README.md:334-335: "Other failures raise SandboxGroupError, whose group *)
(* lists the members the gateway placed": a call that fails, other than    *)
(* for a gateway that creates no groups, fails with a SandboxGroupError    *)
(* once an answer showed placed members.                                   *)
FailureListsMembers ==
    groupAt = "raw" => last = NoAnswer \/ Placed(last) = {}
=============================================================================
