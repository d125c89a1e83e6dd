------------------------------- MODULE Groups -------------------------------
(***************************************************************************)
(* The group store (web/groups.rs), the group and meeting handlers of the  *)
(* REST layer (web/api.rs) and the meeting tokens (web/meeting.rs).  The   *)
(* fan-out that reads the membership is module GroupFanout.                *)
(***************************************************************************)
EXTENDS Naturals

CONSTANTS Folk,          \* user ids
          Enrolled,      \* the ones with a row in users
          GroupTasks,    \* handler tasks that may run at once
          MaxGroups,     \* bound: group ids handed out
          MaxGroupCalls  \* bound: handler calls

ASSUME GroupsAssumption == Enrolled \subseteq Folk /\ {MaxGroups, MaxGroupCalls} \subseteq Nat

VARIABLES groups,     \* groups: rows [id, owner]
          members,    \* group_members: rows [group, user, role]
          gcalls,     \* the handler each task runs
          lastGroup,  \* last group id handed out
          gcount,     \* handler calls so far
          dirtied,    \* groups whose fan-out snapshot was invalidated
          grants      \* meeting tokens signed: [user, room]

groupVars == <<groups, members, gcalls, lastGroup, gcount, dirtied, grants>>

NoGroupCall == [at |-> "idle", me |-> 0, group |-> 0, user |-> 0, code |-> 0]

GroupsInit ==
    /\ groups = {}
    /\ members = {}
    /\ gcalls = [t \in GroupTasks |-> NoGroupCall]
    /\ lastGroup = 0
    /\ gcount = 0
    /\ dirtied = {}
    /\ grants = {}

is_group(g) == \E row \in groups : row.id = g
is_member(g, u) == \E m \in members : m.group = g /\ m.user = u
list_members(g) == {m.user : m \in {n \in members : n.group = g}}
list_member_users(g) == {<<m.user, m.role>> : m \in {n \in members : n.group = g}}
my_groups(u) == {<<m.group, m.role>> : m \in {n \in members : n.user = u}}

GAnswer(t, code) ==
    gcalls' = [gcalls EXCEPT ![t] = [NoGroupCall EXCEPT !.at = "answered", !.code = code]]

GStart(t, call) ==
    /\ gcalls[t].at \in {"idle", "answered"}
    /\ gcount < MaxGroupCalls
    /\ gcount' = gcount + 1
    /\ gcalls' = [gcalls EXCEPT ![t] = call]
    /\ UNCHANGED <<groups, members, lastGroup, dirtied, grants>>

\* POST /api/groups: a blank name is refused before an id is drawn.
CreateGroupCall(t, me, blank) ==
    GStart(t, IF blank THEN [NoGroupCall EXCEPT !.at = "answered", !.code = 400]
                       ELSE [NoGroupCall EXCEPT !.at = "create", !.me = me])

OwnerRow(g, u) == [group |-> g, user |-> u, role |-> "owner"]

\* Both inserts are one transaction; it may fail, or commit and lose its reply.
create_group(t) ==
    /\ gcalls[t].at = "create"
    /\ \/ /\ \E code \in {503, 500} : GAnswer(t, code)
          /\ UNCHANGED <<groups, members, lastGroup>>
       \/ /\ lastGroup < MaxGroups
          /\ lastGroup' = lastGroup + 1
          /\ groups' = groups \cup {[id |-> lastGroup + 1, owner |-> gcalls[t].me]}
          /\ members' = members \cup {OwnerRow(lastGroup + 1, gcalls[t].me)}
          /\ \E code \in {201, 500} : GAnswer(t, code)
    /\ UNCHANGED <<gcount, dirtied, grants>>

AddMemberCall(t, me, g, u) ==
    GStart(t, [NoGroupCall EXCEPT !.at = "owner", !.me = me, !.group = g, !.user = u])

\* SELECT owner_id: no lock is held between this and the insert.
CheckOwner(t) ==
    LET c == gcalls[t]
        row == {r \in groups : r.id = c.group}
    IN /\ c.at = "owner"
       /\ \/ /\ row = {}
             /\ GAnswer(t, 404)
          \/ /\ row # {} /\ \A r \in row : r.owner # c.me
             /\ GAnswer(t, 403)
          \/ /\ \E r \in row : r.owner = c.me
             /\ gcalls' = [gcalls EXCEPT ![t].at = "join"]
          \/ GAnswer(t, 500)
       /\ UNCHANGED <<groups, members, lastGroup, gcount, dirtied, grants>>

\* Mutant of Joined: ON CONFLICT updates the role instead of doing nothing.
Joined_Overwrites(g, u) ==
    {m \in members : m.group # g \/ m.user # u} \cup
    {[group |-> g, user |-> u, role |-> "member"]}

\* INSERT ... ON CONFLICT (group_id, user_id) DO NOTHING.
Joined(g, u) ==
    IF is_member(g, u) THEN members
    ELSE members \cup {[group |-> g, user |-> u, role |-> "member"]}

\* The foreign key refuses a user that does not exist: a database error.
InsertMember(t) ==
    LET c == gcalls[t]
    IN /\ c.at = "join"
       /\ \/ /\ c.user \in Enrolled
             /\ members' = Joined(c.group, c.user)
             /\ gcalls' = [gcalls EXCEPT ![t].at = "dirty"]
          \/ /\ c.user \in Enrolled
             /\ members' = Joined(c.group, c.user)
             /\ GAnswer(t, 500)
          \/ /\ UNCHANGED members
             /\ GAnswer(t, 500)
       /\ UNCHANGED <<groups, lastGroup, gcount, dirtied, grants>>

\* The handler's duty after the write: state.hub.invalidate(group_id).
InvalidateGroup(t) ==
    /\ gcalls[t].at = "dirty"
    /\ dirtied' = dirtied \cup {gcalls[t].group}
    /\ GAnswer(t, 200)
    /\ UNCHANGED <<groups, members, lastGroup, gcount, grants>>

\* The room of a group: "im-meeting-" followed by its id.
room_name(g) == g

\* The claims that matter; the signature is that of the server's secret.
sign_meeting_token(u, room) == [user |-> u, room |-> room]

\* POST /api/groups/{id}/meeting/token: the membership is looked up, then the
\* token is signed for the caller and the group's room.
meeting_token(t, me, g) ==
    /\ gcalls[t].at \in {"idle", "answered"}
    /\ gcount < MaxGroupCalls
    /\ gcount' = gcount + 1
    /\ \/ /\ ~is_member(g, me)
          /\ GAnswer(t, 403)
          /\ UNCHANGED grants
       \/ GAnswer(t, 500) /\ UNCHANGED grants
       \/ /\ is_member(g, me)
          /\ grants' = grants \cup {sign_meeting_token(me, room_name(g))}
          /\ GAnswer(t, 200)
    /\ UNCHANGED <<groups, members, lastGroup, dirtied>>

\* GET /api/groups/{id}/members answers 403 to non-members and the list to others.
list_group_members(t, me, g) ==
    \/ GStart(t, [NoGroupCall EXCEPT !.at = "answered",
                                  !.code = IF is_member(g, me) THEN 200 ELSE 403])
    \/ GStart(t, [NoGroupCall EXCEPT !.at = "answered", !.code = 500])

GroupsNext ==
    \E t \in GroupTasks :
       \/ \E me \in Enrolled :
             \/ \E blank \in BOOLEAN : CreateGroupCall(t, me, blank)
             \/ \E g \in 1..MaxGroups :
                   \/ \E u \in Folk : AddMemberCall(t, me, g, u)
                   \/ meeting_token(t, me, g)
                   \/ list_group_members(t, me, g)
       \/ create_group(t) \/ CheckOwner(t) \/ InsertMember(t) \/ InvalidateGroup(t)

GroupsSpec == GroupsInit /\ [][GroupsNext]_groupVars

-----------------------------------------------------------------------------
\* A group always has its owner among its members with the role "owner", nobody
\* else has that role however often people are added again, a member has one
\* row, and a meeting token opens the room of a group to a member of that group
\* only.
OwnedGroups ==
    /\ \A row \in groups : row.owner \in list_members(row.id)
    /\ \A row \in groups, u \in Folk :
          <<u, "owner">> \in list_member_users(row.id) <=> u = row.owner
    /\ \A m \in members : is_group(m.group) /\ <<m.group, m.role>> \in my_groups(m.user)
    /\ \A m, n \in members : m.group = n.group /\ m.user = n.user => m = n
    /\ \A k \in grants, row \in groups :
          room_name(row.id) = k.room => is_member(row.id, k.user)

=============================================================================
