--------------------------- MODULE RelayMembership ---------------------------
(***************************************************************************)
(* Who is in which group of the relay, with which role, and who owns which *)
(* channel name (apps/relay/main.cpp).  Three tables guarded by g_mutex    *)
(* have to agree: g_groups with its member vectors, the reverse index      *)
(* g_addr_to_group, and g_channels, the only one that survives a restart.  *)
(* A handler holds g_mutex from its first lookup to its last write, so it  *)
(* is one action.                                                          *)
(*                                                                         *)
(* DeviceOf stands for the device name and the device id of a JOIN, which  *)
(* a client sends unchanged.  GRANT and MIC_* reach the first member with  *)
(* the name they carry; which of two members of one device that is depends *)
(* on the order of the vector and is left open: any of them may be meant.  *)
(* Time is not counted: any member may be stale                            *)
(* at a clean-up and any claim may have run out.  JOINs and claims that    *)
(* are refused before anything is written are steps that change nothing.   *)
(***************************************************************************)
EXTENDS Integers, FiniteSets

CONSTANTS
  Addrs,          \* client addresses
  Devices,        \* device identities
  DeviceOf,       \* device of the client at an address
  Names,          \* group names
  Free,           \* random and built-in names, which nobody can own
  Passwords,      \* passwords a JOIN may carry, NoPassword among them
  NoPassword,     \* the empty password
  NoGroup,        \* no entry in g_addr_to_group
  Nobody,         \* no record in g_channels
  MaxGroups,      \* g_max_groups
  MaxMembers      \* g_max_members

ASSUME MembershipAssumption ==
  /\ DeviceOf \in [Addrs -> Devices]
  /\ Free \subseteq Names
  /\ NoPassword \in Passwords
  /\ NoGroup \notin Names
  /\ Nobody \notin Devices
  /\ MaxGroups \in Nat /\ MaxMembers \in Nat \ {0}

VARIABLES
  live,           \* names in g_groups
  pass,           \* Group::password
  talk,           \* Group::talk_mode
  seat,           \* Group::members: role and mic_allowed, by group and address
  indexed,        \* g_addr_to_group
  owner,          \* ChannelRecord::device
  expired,        \* records whose expires has passed
  shown,          \* password a client got in with (history)
  sender          \* the client whose command on its group this was, if it
                  \* was one (history)

channels == <<owner, expired>>
vars == <<live, pass, talk, seat, indexed, channels, shown, sender>>

\* MemberRole, and "none" where there is no Member.
Roles == {"none", "listener", "dj", "owner"}
Seat == [role : Roles, mic : BOOLEAN]
Out == [role |-> "none", mic |-> FALSE]

Seated(g) == {a \in Addrs : seat[g][a].role # "none"}
-----------------------------------------------------------------------------
Init ==
  /\ live = {}
  /\ pass = [g \in Names |-> NoPassword]
  /\ talk = [g \in Names |-> FALSE]
  /\ seat = [g \in Names |-> [a \in Addrs |-> Out]]
  /\ indexed = [a \in Addrs |-> NoGroup]
  /\ owner = [g \in Names |-> Nobody]
  /\ expired = {}
  /\ shown = [a \in Addrs |-> NoPassword]
  /\ sender = {}

\* g_groups.erase of every group in gone: the next one starts from defaults.
Dissolve(gone) ==
  /\ pass' = [g \in Names |-> IF g \in gone THEN NoPassword ELSE pass[g]]
  /\ talk' = [g \in Names |-> IF g \in gone THEN FALSE ELSE talk[g]]

-----------------------------------------------------------------------------
(* JOIN.                                                                   *)

\* The name is claimed, not expired, and not by this device.
Reserved(a, g) ==
  /\ g \notin Free
  /\ owner[g] \notin {Nobody, DeviceOf[a]} /\ g \notin expired

\* Mutant: the old seat is forgotten.
LeftForgotten(a, g) == {}

\* The group the index names is left first, whatever becomes of the JOIN.
Left(a, g) == {h \in live \ {g} : indexed[a] = h}

SeatsLeft(a, g) ==
  [h \in Names |-> IF h \in Left(a, g) THEN [seat[h] EXCEPT ![a] = Out]
                                       ELSE seat[h]]

\* Mutant: the emptied group stays in the table.
EmptiedKept(a, g) == {}

\* It is dissolved when nobody remains.
Emptied(a, g) == {h \in Left(a, g) : Seated(h) \subseteq {a}}

\* Mutant: the password of an existing group is not compared.
MayEnterAnyPassword(a, g, pw) ==
  g \in live \/ Cardinality(live \ Emptied(a, g)) < MaxGroups

\* Room in the table for a new group, or the password of an existing one.
MayEnter(a, g, pw) ==
  IF g \in live THEN pass[g] \in {NoPassword, pw}
                ELSE Cardinality(live \ Emptied(a, g)) < MaxGroups

\* Role of a new member, in the order handle_join decides it.
JoinRole(a, g) ==
  IF g \in Free \/ talk[g] THEN "dj"
  ELSE IF owner[g] = DeviceOf[a] THEN "owner"
  ELSE IF Seated(g) = {} THEN "dj" ELSE "listener"

\* handle_join that ends with an error, or finds the client a member already.
JoinNoSeat(a, g, pw) ==
  /\ ~Reserved(a, g)
  /\ \/ ~MayEnter(a, g, pw)
     \/ a \in Seated(g)
     \/ Cardinality(Seated(g)) >= MaxMembers
  /\ seat' = SeatsLeft(a, g)
  /\ live' = live \ Emptied(a, g)
  /\ Dissolve(Emptied(a, g))
  /\ sender' = {}
  /\ UNCHANGED <<indexed, channels, shown>>

\* handle_join that makes the client a member.
JoinSeat(a, g, pw) ==
  /\ ~Reserved(a, g)
  /\ MayEnter(a, g, pw)
  /\ a \notin Seated(g)
  /\ Cardinality(Seated(g)) < MaxMembers
  /\ LET role == JoinRole(a, g)
     IN  seat' = [SeatsLeft(a, g) EXCEPT
                    ![g][a] = [role |-> role, mic |-> role # "listener"]]
  /\ live' = (live \ Emptied(a, g)) \cup {g}
  /\ talk' = [h \in Names |-> IF h \in Emptied(a, g) THEN FALSE ELSE talk[h]]
  /\ pass' = [h \in Names |-> IF h = g /\ g \notin live THEN pw
                              ELSE IF h \in Emptied(a, g) THEN NoPassword
                              ELSE pass[h]]
  /\ indexed' = [indexed EXCEPT ![a] = g]
  /\ shown' = [shown EXCEPT ![a] = pw]
  /\ sender' = {}
  /\ UNCHANGED channels

-----------------------------------------------------------------------------
(* Commands of a client in "its" group: the handlers take the name from    *)
(* the index and open it with g_groups[name], which inserts an empty group *)
(* when that one was dissolved.                                            *)

Opens(a) ==
  /\ indexed[a] # NoGroup
  /\ live' = live \cup {indexed[a]}
  /\ sender' = {a}
  /\ UNCHANGED <<pass, indexed, channels, shown>>

RoleIn(a) == seat[indexed[a]][a].role

\* MODE, ROYALTY_PAYER, MEMBERS and the like, and every command below when it
\* is refused: nothing but the group opened.
Consult(a) == Opens(a) /\ UNCHANGED <<seat, talk>>

\* handle_grant: only an Owner, on the first member with the device name.
Grant(a, b, role) ==
  /\ Opens(a)
  /\ RoleIn(a) = "owner"
  /\ b \in Seated(indexed[a])
  /\ seat' = [seat EXCEPT ![indexed[a]][b] =
                [role |-> role, mic |-> @.mic \/ role = "dj"]]
  /\ UNCHANGED talk

\* Mutant: any member may switch.
TalkAnyone(a, enable) ==
  /\ Opens(a)
  /\ RoleIn(a) # "none"
  /\ talk' = [talk EXCEPT ![indexed[a]] = enable]
  /\ seat' = [seat EXCEPT ![indexed[a]] =
                [b \in Addrs |-> IF enable /\ @[b].role = "listener"
                                 THEN [role |-> "dj", mic |-> TRUE] ELSE @[b]]]

\* handle_talk: switching on promotes every listener, off demotes nobody.
Talk(a, enable) ==
  /\ Opens(a)
  /\ RoleIn(a) \in {"dj", "owner"}
  /\ talk' = [talk EXCEPT ![indexed[a]] = enable]
  /\ seat' = [seat EXCEPT ![indexed[a]] =
                [b \in Addrs |-> IF enable /\ @[b].role = "listener"
                                 THEN [role |-> "dj", mic |-> TRUE] ELSE @[b]]]

\* handle_mic_allow.
MicAllow(a, b) ==
  /\ Opens(a)
  /\ RoleIn(a) \in {"dj", "owner"}
  /\ b \in Seated(indexed[a])
  /\ seat' = [seat EXCEPT ![indexed[a]][b].mic = TRUE]
  /\ UNCHANGED talk

\* Mutant: the role of the target is not looked at.
MicDenyAnyone(a, b) ==
  /\ Opens(a)
  /\ RoleIn(a) \in {"dj", "owner"}
  /\ b \in Seated(indexed[a])
  /\ seat' = [seat EXCEPT ![indexed[a]][b].mic = FALSE]
  /\ UNCHANGED talk

\* handle_mic_deny: not for a DJ or an Owner.
MicDeny(a, b) ==
  /\ Opens(a)
  /\ RoleIn(a) \in {"dj", "owner"}
  /\ seat[indexed[a]][b].role = "listener"
  /\ seat' = [seat EXCEPT ![indexed[a]][b].mic = FALSE]
  /\ UNCHANGED talk

-----------------------------------------------------------------------------
(* Channel records.                                                        *)

\* CLAIM and the two HTTP claims: a free, expired or own record.
Claim(g, d) ==
  /\ g \notin Free
  /\ owner[g] \in {Nobody, d} \/ g \in expired
  /\ owner' = [owner EXCEPT ![g] = d]
  /\ expired' = expired \ {g}
  /\ sender' = {}
  /\ UNCHANGED <<live, pass, talk, seat, indexed, shown>>

\* RELEASE by the owning device, or /api/admin/release.
Release(g) ==
  /\ owner[g] # Nobody
  /\ owner' = [owner EXCEPT ![g] = Nobody]
  /\ expired' = expired \ {g}
  /\ sender' = {}
  /\ UNCHANGED <<live, pass, talk, seat, indexed, shown>>

\* Mutant: the device is marked, not the record.
ExpireDevice(g) ==
  /\ owner[g] # Nobody
  /\ expired' = expired \cup {owner[g]}
  /\ sender' = {}
  /\ UNCHANGED <<live, pass, talk, seat, indexed, owner, shown>>

\* A year passes, or the subscription of the record ends.
Expire(g) ==
  /\ owner[g] # Nobody
  /\ expired' = expired \cup {g}
  /\ sender' = {}
  /\ UNCHANGED <<live, pass, talk, seat, indexed, owner, shown>>

-----------------------------------------------------------------------------
\* cleanup_stale: stale members leave, a group that loses its last member is
\* dissolved, expired records go.
CleanupStale(stale) ==
  LET gone == {g \in live : Seated(g) # {} /\ Seated(g) \subseteq stale}
      hit  == {a \in stale : \E g \in live : a \in Seated(g)}
  IN  /\ seat' = [g \in Names |->
                    [a \in Addrs |-> IF a \in stale /\ g \in live THEN Out
                                     ELSE seat[g][a]]]
      /\ live' = live \ gone
      /\ Dissolve(gone)
      /\ indexed' = [a \in Addrs |-> IF a \in hit THEN NoGroup ELSE indexed[a]]
      /\ owner' = [g \in Names |-> IF g \in expired THEN Nobody ELSE owner[g]]
      /\ expired' = {}
      /\ sender' = {}
      /\ UNCHANGED shown

\* The process restarts: channels_load reads back what the last channels_save
\* renamed into place; groups and index start empty.
Restart ==
  /\ live' = {}
  /\ Dissolve(Names)
  /\ seat' = [g \in Names |-> [a \in Addrs |-> Out]]
  /\ indexed' = [a \in Addrs |-> NoGroup]
  /\ sender' = {}
  /\ UNCHANGED <<channels, shown>>

Next ==
  \/ \E a \in Addrs, g \in Names, pw \in Passwords : JoinNoSeat(a, g, pw)
  \/ \E a \in Addrs, g \in Names, pw \in Passwords : JoinSeat(a, g, pw)
  \/ \E a \in Addrs : Consult(a)
  \/ \E a, b \in Addrs, role \in {"dj", "listener"} : Grant(a, b, role)
  \/ \E a \in Addrs, enable \in BOOLEAN : Talk(a, enable)
  \/ \E a, b \in Addrs : MicAllow(a, b)
  \/ \E a, b \in Addrs : MicDeny(a, b)
  \/ \E g \in Names, d \in Devices : Claim(g, d)
  \/ \E g \in Names : Release(g)
  \/ \E g \in Names : Expire(g)
  \/ \E stale \in SUBSET Addrs : CleanupStale(stale)
  \/ Restart

Spec == Init /\ [][Next]_vars
-----------------------------------------------------------------------------
(* Properties.                                                             *)

\* Type invariant.
TypeOK ==
  /\ live \subseteq Names
  /\ pass \in [Names -> Passwords]
  /\ talk \in [Names -> BOOLEAN]
  /\ seat \in [Names -> [Addrs -> Seat]]
  /\ indexed \in [Addrs -> Names \cup {NoGroup}]
  /\ owner \in [Names -> Devices \cup {Nobody}]
  /\ expired \subseteq Names
  /\ shown \in [Addrs -> Passwords]
  /\ sender \subseteq Addrs

\* The reverse index leads from every member to its group, through refused
\* JOINs, moves and clean-ups: forward_audio looks nowhere else once the group
\* it names exists, and would drop the member's audio.
IndexAgrees == \A g \in Names : \A a \in Seated(g) : indexed[a] = g

\* No client sits in two groups: its audio would go out in both, and only one
\* of the two seats would ever be cleaned up.
OneGroup ==
  \A a \in Addrs, g, h \in Names : a \in Seated(g) /\ a \in Seated(h) => g = h

\* A group without members, left over by g_groups[stale name], is still what
\* some client's index names: its next JOIN can reclaim the table entry.
EmptyGroupPinned ==
  \A g \in live : Seated(g) = {} => \E a \in Addrs : indexed[a] = g

\* Everybody in a password-protected group came in with its password, however
\* often a group of that name was dissolved and created again.
PasswordShown ==
  \A g \in Names : \A a \in Seated(g) : pass[g] \in {NoPassword, shown[a]}

\* DJ and Owner "implicitly have mic permission": no order of GRANT, TALK,
\* MIC_ALLOW and MIC_DENY leaves one of them muted.
DjHasMic ==
  \A g \in Names, a \in Addrs :
    seat[g][a].role \in {"dj", "owner"} => seat[g][a].mic

\* Who may speak in a group changes for a sitting member, and talk mode in a
\* group that goes on, only by the command of a member of that group who is a
\* DJ or an Owner when it arrives; and a role, beyond what talk mode gives every
\* listener, only by the Owner's.  The handlers look the group up in the index,
\* which outlives seats and groups.
Decides(b, g, role) == b \in sender' /\ seat[g][b].role = role

RoleStep(g, a) ==
  a \in Seated(g) /\ a \in Seated(g)' =>
    /\ seat'[g][a] # seat[g][a] =>
         \E b \in Seated(g) : Decides(b, g, "dj") \/ Decides(b, g, "owner")
    /\ seat'[g][a].role # seat[g][a].role =>
         \/ \E b \in Seated(g) : Decides(b, g, "owner")
         \/ talk'[g] /\ seat[g][a].role = "listener" /\ seat'[g][a].role = "dj"

TalkStep(g) ==
  g \in live /\ g \in live' /\ talk'[g] # talk[g] =>
    \E b \in Seated(g) : Decides(b, g, "dj") \/ Decides(b, g, "owner")

AuthorityStep == \A g \in Names : TalkStep(g) /\ \A a \in Addrs : RoleStep(g, a)
AuthorityNeeded == [][AuthorityStep]_vars

\* docs/protocol.md: "ERR:max_groups | Max groups reached", said of a limit on
\* the number of groups.
GroupsBounded == Cardinality(live) <= MaxGroups

-----------------------------------------------------------------------------
(* The inductive invariant.                                                *)

\* Members and group settings exist in live groups only.
SeatedInLive ==
  \A g \in Names \ live : Seated(g) = {} /\ pass[g] = NoPassword /\ ~talk[g]

IInv ==
  /\ TypeOK
  /\ SeatedInLive
  /\ IndexAgrees
  /\ EmptyGroupPinned
  /\ PasswordShown
  /\ DjHasMic
=============================================================================
