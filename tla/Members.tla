------------------------------- MODULE Members -------------------------------
(***************************************************************************)
(* Workspaces and their members: WorkspaceService behind                   *)
(* WorkspaceController, with the permissions of the default roles.         *)
(*                                                                         *)
(* Every operation is a chain of queries: what it may do, what it found    *)
(* and what it writes are read and written by different ones, and any of   *)
(* them may fail.  createWorkspace alone writes in a transaction.  The     *)
(* audit row or the event after a write follows as in Records and is left  *)
(* out.                                                                    *)
(***************************************************************************)
EXTENDS Naturals, FiniteSets

CONSTANTS
  Persons,
  Offices,      \* workspaces whose names give the same slug
  MemberIds,    \* ids of WorkspaceMember rows, used once: bound the invitations
  MemberCalls,  \* operations in progress: bounds their number
  GivenRoles    \* the roles people are given

VARIABLES
  office,     \* rows of Workspace: their owner and the suffix of their slug
  membership, \* rows of WorkspaceMember; a removed one is kept as not current
  memberCall  \* progress of each operation

membersVars == <<office, membership, memberCall>>

\* What the roles grant of the permissions these operations ask for.
Granted ==
  LET all == {"member.invite", "member.role.set", "member.remove",
              "project.create", "project.update", "project.delete",
              "task.create", "task.update"}
  IN [OWNER |-> all, ADMIN |-> all,
      MANAGER |-> all \ {"member.role.set", "member.remove"},
      STAFF |-> {"task.create", "task.update"}, MEMBER |-> {"task.update"},
      MODERATOR |-> {"member.remove"}, CLIENT |-> {}, GUEST |-> {}]
Roles == DOMAIN Granted

ASSUME RolesAreGiven == GivenRoles \subseteq Roles

NoOffice == [owner |-> "nobody"]
NoMember == [current |-> FALSE]
MemberIdle == [at |-> "idle"]
MemberRows == [office : Offices, person : Persons, role : Roles, current : BOOLEAN]

\* What the caller asks for; roles are those of a test's choice.
MemberAsks ==
  [op : {"create"}, by : Persons, office : Offices]
  \cup [op : {"invite"}, by : Persons, office : Offices, person : Persons, role : GivenRoles]
  \cup [op : {"role.set"}, by : Persons, office : Offices, id : MemberIds, role : GivenRoles]
  \cup [op : {"remove"}, by : Persons, office : Offices, id : MemberIds]

MembersTypeOK ==
  /\ office \in [Offices -> {NoOffice} \cup [owner : Persons, slug : Nat \ {0}]]
  /\ membership \in [MemberIds -> {NoMember} \cup MemberRows]
  /\ memberCall \in [MemberCalls -> {MemberIdle} \cup
       [at : {"permit", "slug", "transact", "find", "write"}, ask : MemberAsks,
        slug : Nat \ {0}]]

MembersInit ==
  /\ office = [w \in Offices |-> NoOffice]
  /\ membership = [i \in MemberIds |-> NoMember]
  /\ memberCall = [c \in MemberCalls |-> MemberIdle]

-----------------------------------------------------------------------------

IsOffice(w) == office[w] # NoOffice
Current(i) == membership[i].current
Memberships(w, u) ==
  {i \in MemberIds : Current(i) /\ membership[i].office = w /\ membership[i].person = u}
IsMember(w, u) == Memberships(w, u) # {}

\* assertPermission: the role of the membership is read, and what it grants.
Holds(u, w, permission) ==
  \E i \in Memberships(w, u) : permission \in Granted[membership[i].role]

Asked(c) == memberCall[c].ask
MemberAt(c, place) == memberCall[c].at = place
MemberGoto(c, place) == memberCall' = [memberCall EXCEPT ![c].at = place]
MemberDone(c) == memberCall' = [memberCall EXCEPT ![c] = MemberIdle]
SlugTaken(n) == \E w \in Offices : IsOffice(w) /\ office[w].slug = n

\* A row that is created takes an id that nobody has had.
IdLeft == \E i \in MemberIds : membership[i] = NoMember
FreshId == CHOOSE i \in MemberIds : membership[i] = NoMember
NewMember(w, u, role) ==
  /\ IdLeft
  /\ membership' = [membership EXCEPT ![FreshId] =
       [office |-> w, person |-> u, role |-> role, current |-> TRUE]]

MemberCalled(c, k) ==
  /\ memberCall[c] = MemberIdle
  /\ k.op = "create" <=> ~IsOffice(k.office)
  /\ k.op = "create" => \A d \in MemberCalls : memberCall[d] # MemberIdle =>
                           Asked(d).office # k.office
  /\ memberCall' = [memberCall EXCEPT ![c] =
       [at |-> IF k.op = "create" THEN "slug" ELSE "permit", ask |-> k, slug |-> 1]]
  /\ UNCHANGED <<office, membership>>

\* A check refuses the call, or a query of it fails.
MemberRefused(c) ==
  /\ memberCall[c] # MemberIdle
  /\ MemberDone(c)
  /\ UNCHANGED <<office, membership>>

MemberPermitted(c) ==
  /\ MemberAt(c, "permit")
  /\ LET k == Asked(c) IN
     Holds(k.by, k.office, CASE k.op = "invite" -> "member.invite"
                             [] k.op = "role.set" -> "member.role.set"
                             [] OTHER -> "member.remove")
  /\ MemberGoto(c, "find")
  /\ UNCHANGED <<office, membership>>

\* unusedSlugFor: base, base-2, base-3 and so on, one query each.
SlugTried(c) ==
  /\ MemberAt(c, "slug")
  /\ IF SlugTaken(memberCall[c].slug)
     THEN memberCall' = [memberCall EXCEPT ![c].slug = @ + 1]
     ELSE MemberGoto(c, "transact")
  /\ UNCHANGED <<office, membership>>

\* The workspace, its roles and the membership of its owner, or nothing of it:
\* the unique key of the slug refuses the second of two that found it free.
OfficeCreated(c) ==
  /\ MemberAt(c, "transact")
  /\ LET k == Asked(c) IN
     /\ ~IsOffice(k.office) /\ ~SlugTaken(memberCall[c].slug)
     /\ office' = [office EXCEPT ![k.office] = [owner |-> k.by, slug |-> memberCall[c].slug]]
     /\ NewMember(k.office, k.by, "OWNER")
  /\ MemberDone(c)

\* The person would be whoever asks, not whoever owns the workspace.
MayGoSelf(k) == membership[k.id].person # k.by
\* removeMember: the owner stays.  ownerId never changes, so reading it is no
\* step of its own.
MayGo(k) == membership[k.id].person # office[k.office].owner

\* What the call looks for is there: the person is not a member yet, the
\* membership is of this workspace, its role is another, it is not the owner's.
MemberFound(c) ==
  /\ MemberAt(c, "find")
  /\ LET k == Asked(c) IN
     /\ k.op = "invite" => ~IsMember(k.office, k.person)
     /\ k.op # "invite" => Current(k.id) /\ membership[k.id].office = k.office
     /\ k.op = "role.set" => membership[k.id].role # k.role
     /\ k.op = "remove" => MayGo(k)
  /\ MemberGoto(c, "write")
  /\ UNCHANGED <<office, membership>>

\* The unique key of workspace and person refuses the second of two invitations.
Invited(c) ==
  /\ MemberAt(c, "write") /\ Asked(c).op = "invite"
  /\ LET k == Asked(c) IN
     /\ ~IsMember(k.office, k.person)
     /\ NewMember(k.office, k.person, k.role)
  /\ MemberDone(c)
  /\ UNCHANGED office

\* Updates and deletions of a row that is gone fail.
RoleSet(c) ==
  /\ MemberAt(c, "write") /\ Asked(c).op = "role.set"
  /\ Current(Asked(c).id)
  /\ membership' = [membership EXCEPT ![Asked(c).id].role = Asked(c).role]
  /\ MemberDone(c)
  /\ UNCHANGED office

MemberRemoved(c) ==
  /\ MemberAt(c, "write") /\ Asked(c).op = "remove"
  /\ Current(Asked(c).id)
  /\ membership' = [membership EXCEPT ![Asked(c).id].current = FALSE]
  /\ MemberDone(c)
  /\ UNCHANGED office

MembersNext ==
  \E c \in MemberCalls :
    \/ \E k \in MemberAsks : MemberCalled(c, k)
    \/ MemberRefused(c) \/ MemberPermitted(c) \/ SlugTried(c) \/ MemberFound(c)
    \/ OfficeCreated(c) \/ Invited(c) \/ RoleSet(c) \/ MemberRemoved(c)

MembersSpec == MembersInit /\ [][MembersNext]_membersVars

-----------------------------------------------------------------------------

\* Whoever is invited, removed or given another role, in whatever order and
\* however late: the owner of a workspace is a member of it.
OwnerStays ==
  \A w \in Offices : IsOffice(w) => IsMember(w, office[w].owner)

\* The workspaces of one name are told apart without gaps, however many are
\* created at once: the suffix n is taken only when every smaller one is.
SlugsDense ==
  \A w \in Offices : IsOffice(w) => \A n \in 1..office[w].slug : SlugTaken(n)
=============================================================================
