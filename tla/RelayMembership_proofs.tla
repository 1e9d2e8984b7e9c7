------------------------ MODULE RelayMembership_proofs ------------------------
(***************************************************************************)
(* The three tables of the relay agree, for any number of clients, groups, *)
(* passwords and channel records.                                          *)
(***************************************************************************)
EXTENDS RelayMembership, TLAPS

LEMMA InitInv == Init => IInv
<1> SUFFICES ASSUME Init PROVE IInv
  OBVIOUS
<1>1. TypeOK
  BY MembershipAssumption DEF Init, TypeOK, Seat, Out, Roles
<1>2. \A g \in Names : Seated(g) = {}
  BY DEF Init, Seated, Out
<1> QED
  BY <1>1, <1>2 DEF Init, IInv, SeatedInLive, IndexAgrees, EmptyGroupPinned,
                    PasswordShown, DjHasMic, Out

-----------------------------------------------------------------------------
(* What leaving the old group does, on the way into another one.           *)

\* A client sits in no group but the one it leaves and the one it asks for.
LEMMA SeatsAfterLeaving ==
  ASSUME IInv, NEW a \in Addrs, NEW g \in Names
  PROVE  /\ SeatsLeft(a, g) \in [Names -> [Addrs -> Seat]]
         /\ \A h \in Names \ {g} : SeatsLeft(a, g)[h][a].role = "none"
         /\ SeatsLeft(a, g)[g] = seat[g]
         /\ \A h \in Names, b \in Addrs \ {a} :
              SeatsLeft(a, g)[h][b] = seat[h][b]
         /\ \A h \in Names : \/ SeatsLeft(a, g)[h][a] = seat[h][a]
                             \/ SeatsLeft(a, g)[h][a] = Out
<1> USE DEF IInv, TypeOK
<1>1. Left(a, g) \subseteq live \ {g}
  BY DEF Left
<1>2. Out \in Seat /\ Out.role = "none"
  BY DEF Out, Seat, Roles
<1>3. ASSUME NEW h \in Names
      PROVE  /\ SeatsLeft(a, g)[h] \in [Addrs -> Seat]
             /\ \A b \in Addrs \ {a} : SeatsLeft(a, g)[h][b] = seat[h][b]
             /\ SeatsLeft(a, g)[h][a] = IF h \in Left(a, g) THEN Out ELSE seat[h][a]
  BY <1>2 DEF SeatsLeft
<1>4. SeatsLeft(a, g) \in [Names -> [Addrs -> Seat]]
  BY <1>3 DEF SeatsLeft
<1>5. ASSUME NEW h \in Names \ {g} PROVE SeatsLeft(a, g)[h][a].role = "none"
  <2>1. CASE h \in Left(a, g)
    BY <1>2, <1>3, <2>1
  <2>2. CASE h \notin Left(a, g)
    <3>1. a \notin Seated(h)
      BY <2>2 DEF Left, IndexAgrees, SeatedInLive
    <3> QED
      BY <1>3, <2>2, <3>1 DEF Seated
  <2> QED
    BY <2>1, <2>2
<1>6. SeatsLeft(a, g)[g] = seat[g]
  BY <1>1 DEF SeatsLeft
<1> QED
  BY <1>3, <1>4, <1>5, <1>6

\* JOIN refused, or of a member.
LEMMA JoinNoSeatInv ==
  ASSUME IInv, NEW a \in Addrs, NEW g \in Names, NEW pw \in Passwords,
         JoinNoSeat(a, g, pw)
  PROVE  IInv'
<1> USE DEF IInv, TypeOK
<1>1. /\ seat' = SeatsLeft(a, g)
      /\ live' = live \ Emptied(a, g)
      /\ Dissolve(Emptied(a, g))
      /\ sender' = {} /\ UNCHANGED <<indexed, owner, expired, shown>>
  BY DEF JoinNoSeat, channels
<1>2. /\ seat' \in [Names -> [Addrs -> Seat]]
      /\ \A h \in Names \ {g} : seat'[h][a].role = "none"
      /\ seat'[g] = seat[g]
      /\ \A h \in Names, b \in Addrs \ {a} : seat'[h][b] = seat[h][b]
      /\ \A h \in Names : seat'[h][a] = seat[h][a] \/ seat'[h][a] = Out
  BY <1>1, SeatsAfterLeaving
<1>3. ASSUME NEW h \in Names
      PROVE  /\ Seated(h)' \subseteq Seated(h)
             /\ h # g => Seated(h)' = Seated(h) \ {a}
             /\ h = g => Seated(h)' = Seated(h)
  BY <1>2 DEF Seated, Out
<1>4. Emptied(a, g) \subseteq Left(a, g) /\ Left(a, g) \subseteq live \ {g}
  BY DEF Emptied, Left
<1>5. TypeOK'
  BY <1>1, <1>2, MembershipAssumption DEF Dissolve
<1>6. SeatedInLive'
  <2> SUFFICES ASSUME NEW h \in Names, h \notin live'
               PROVE  Seated(h)' = {} /\ pass'[h] = NoPassword /\ ~talk'[h]
    BY DEF SeatedInLive
  <2>1. CASE h \in Emptied(a, g)
    <3>1. Seated(h) \subseteq {a} /\ h # g
      BY <1>4, <2>1 DEF Emptied
    <3> QED
      BY <1>1, <1>3, <2>1, <3>1 DEF Dissolve
  <2>2. CASE h \notin live
    BY <1>1, <1>3, <2>2 DEF Dissolve, SeatedInLive
  <2> QED
    BY <1>1, <2>1, <2>2
<1>7. IndexAgrees'
  BY <1>1, <1>3 DEF IndexAgrees
<1>8. EmptyGroupPinned'
  <2> SUFFICES ASSUME NEW h \in live', Seated(h)' = {}
               PROVE  \E b \in Addrs : indexed'[b] = h
    BY DEF EmptyGroupPinned
  <2>1. h \in live /\ h \notin Emptied(a, g) /\ h \in Names
    BY <1>1
  <2>2. Seated(h) \subseteq {a}
    BY <1>3, <2>1
  <2>3. CASE Seated(h) = {}
    BY <1>1, <2>1, <2>3 DEF EmptyGroupPinned
  <2>4. CASE a \in Seated(h)
    BY <1>1, <2>1, <2>4 DEF IndexAgrees
  <2> QED
    BY <2>2, <2>3, <2>4
<1>9. PasswordShown'
  BY <1>1, <1>3 DEF PasswordShown, Dissolve
<1>10. DjHasMic'
  <2> SUFFICES ASSUME NEW h \in Names, NEW b \in Addrs,
                      seat'[h][b].role \in {"dj", "owner"}
               PROVE  seat'[h][b].mic
    BY DEF DjHasMic
  <2>1. seat'[h][b] = seat[h][b]
    BY <1>2 DEF Out
  <2> QED
    BY <2>1 DEF DjHasMic
<1> QED
  BY <1>5, <1>6, <1>7, <1>8, <1>9, <1>10

\* JOIN that makes the client a member.
LEMMA JoinSeatInv ==
  ASSUME IInv, NEW a \in Addrs, NEW g \in Names, NEW pw \in Passwords,
         JoinSeat(a, g, pw)
  PROVE  IInv'
<1> USE DEF IInv, TypeOK
<1> DEFINE role == JoinRole(a, g)
           new == [role |-> role, mic |-> role # "listener"]
<1>1. /\ MayEnter(a, g, pw) /\ a \notin Seated(g)
      /\ seat' = [SeatsLeft(a, g) EXCEPT ![g][a] = new]
      /\ live' = (live \ Emptied(a, g)) \cup {g}
      /\ talk' = [h \in Names |-> IF h \in Emptied(a, g) THEN FALSE ELSE talk[h]]
      /\ pass' = [h \in Names |-> IF h = g /\ g \notin live THEN pw
                                  ELSE IF h \in Emptied(a, g) THEN NoPassword
                                  ELSE pass[h]]
      /\ indexed' = [indexed EXCEPT ![a] = g]
      /\ shown' = [shown EXCEPT ![a] = pw]
      /\ sender' = {}
      /\ UNCHANGED <<owner, expired>>
  BY DEF JoinSeat, channels
<1>2. /\ role \in {"dj", "owner", "listener"}
      /\ new \in Seat /\ new.role = role /\ new.mic = (role # "listener")
  BY DEF JoinRole, Seat, Roles
<1> HIDE DEF new, role
<1>3. /\ seat' \in [Names -> [Addrs -> Seat]]
      /\ seat'[g][a] = new
      /\ \A h \in Names \ {g} : seat'[h][a].role = "none"
      /\ \A h \in Names, b \in Addrs \ {a} : seat'[h][b] = seat[h][b]
  BY <1>1, <1>2, SeatsAfterLeaving
<1>4. ASSUME NEW h \in Names
      PROVE  /\ h # g => Seated(h)' = Seated(h) \ {a}
             /\ h = g => Seated(h)' = Seated(h) \cup {a}
  BY <1>2, <1>3 DEF Seated
<1>5. Emptied(a, g) \subseteq Left(a, g) /\ Left(a, g) \subseteq live \ {g}
  BY DEF Emptied, Left
<1>6. TypeOK'
  <2>1. live' \subseteq Names
    BY <1>1
  <2>2. pass' \in [Names -> Passwords] /\ talk' \in [Names -> BOOLEAN]
    BY <1>1, MembershipAssumption
  <2>3. indexed' \in [Addrs -> Names \cup {NoGroup}] /\ shown' \in [Addrs -> Passwords]
    BY <1>1
  <2> QED
    BY <1>1, <1>3, <2>1, <2>2, <2>3
<1>7. SeatedInLive'
  <2> SUFFICES ASSUME NEW h \in Names, h \notin live'
               PROVE  Seated(h)' = {} /\ pass'[h] = NoPassword /\ ~talk'[h]
    BY DEF SeatedInLive
  <2>1. h # g
    BY <1>1
  <2>2. CASE h \in Emptied(a, g)
    <3>1. Seated(h) \subseteq {a}
      BY <2>2 DEF Emptied
    <3> QED
      BY <1>1, <1>4, <2>1, <2>2, <3>1
  <2>3. CASE h \notin live
    BY <1>1, <1>4, <2>1, <2>3 DEF SeatedInLive
  <2> QED
    BY <1>1, <2>2, <2>3
<1>8. IndexAgrees'
  BY <1>1, <1>4 DEF IndexAgrees
<1>9. EmptyGroupPinned'
  <2> SUFFICES ASSUME NEW h \in live', Seated(h)' = {}
               PROVE  \E b \in Addrs : indexed'[b] = h
    BY DEF EmptyGroupPinned
  <2>1. h # g
    BY <1>4
  <2>2. h \in live /\ h \notin Emptied(a, g) /\ h \in Names
    BY <1>1, <2>1
  <2>3. Seated(h) \subseteq {a}
    BY <1>4, <2>1, <2>2
  <2>4. indexed[a] # h
    BY <2>1, <2>2, <2>3 DEF Emptied, Left
  <2>5. Seated(h) = {}
    BY <2>2, <2>3, <2>4 DEF IndexAgrees
  <2>6. PICK b \in Addrs : indexed[b] = h
    BY <2>2, <2>5 DEF EmptyGroupPinned
  <2> QED
    BY <1>1, <2>4, <2>6
<1>10. PasswordShown'
  <2> SUFFICES ASSUME NEW h \in Names, NEW b \in Seated(h)'
               PROVE  pass'[h] \in {NoPassword, shown'[b]}
    BY DEF PasswordShown
  <2>0. b \in Addrs
    BY DEF Seated
  <2>1. CASE b = a
    <3>1. h = g
      BY <1>4, <2>1
    <3>2. g \notin Emptied(a, g)
      BY <1>5
    <3> QED
      BY <1>1, <2>1, <3>1, <3>2 DEF MayEnter
  <2>2. CASE b # a
    <3>1. b \in Seated(h)
      BY <1>4, <2>2
    <3>2. ~(h = g /\ g \notin live)
      BY <3>1 DEF SeatedInLive
    <3>3. pass'[h] \in {NoPassword, pass[h]} /\ shown'[b] = shown[b]
      BY <1>1, <2>0, <2>2, <3>2
    <3> QED
      BY <3>1, <3>3 DEF PasswordShown
  <2> QED
    BY <2>1, <2>2
<1>11. DjHasMic'
  <2> SUFFICES ASSUME NEW h \in Names, NEW b \in Addrs,
                      seat'[h][b].role \in {"dj", "owner"}
               PROVE  seat'[h][b].mic
    BY DEF DjHasMic
  <2>1. CASE b = a
    BY <1>2, <1>3, <2>1
  <2>2. CASE b # a
    BY <1>3, <2>2 DEF DjHasMic
  <2> QED
    BY <2>1, <2>2
<1> QED
  BY <1>6, <1>7, <1>8, <1>9, <1>10, <1>11

-----------------------------------------------------------------------------
(* Commands: each opens the group the index names and at most changes      *)
(* roles and microphones of clients that sit there.                        *)

\* Opening a group, with seats kept apart from role and mic, keeps all of the
\* invariant that is not about microphones.
LEMMA OpensInv ==
  ASSUME IInv, NEW a \in Addrs, Opens(a),
         talk' = talk \/ (talk' \in [Names -> BOOLEAN]
                          /\ \A h \in Names \ {indexed[a]} : talk'[h] = talk[h]),
         seat' \in [Names -> [Addrs -> Seat]],
         \A h \in Names, b \in Addrs :
           seat'[h][b].role = "none" <=> seat[h][b].role = "none"
  PROVE  /\ TypeOK' /\ SeatedInLive' /\ IndexAgrees'
         /\ EmptyGroupPinned' /\ PasswordShown'
<1> USE DEF IInv, TypeOK
<1>1. /\ indexed[a] \in Names
      /\ live' = live \cup {indexed[a]}
      /\ sender' = {a} /\ UNCHANGED <<pass, indexed, owner, expired, shown>>
  BY DEF Opens, channels
<1>2. \A h \in Names : Seated(h)' = Seated(h)
  BY DEF Seated
<1>3. TypeOK'
  BY <1>1
<1>4. SeatedInLive'
  <2> SUFFICES ASSUME NEW h \in Names, h \notin live'
               PROVE  Seated(h)' = {} /\ pass'[h] = NoPassword /\ ~talk'[h]
    BY DEF SeatedInLive
  <2>1. h \notin live /\ h # indexed[a]
    BY <1>1
  <2>2. talk'[h] = talk[h]
    BY <2>1
  <2> QED
    BY <1>1, <1>2, <2>1, <2>2 DEF SeatedInLive
<1>5. IndexAgrees'
  BY <1>1, <1>2 DEF IndexAgrees
<1>6. EmptyGroupPinned'
  BY <1>1, <1>2 DEF EmptyGroupPinned
<1>7. PasswordShown'
  BY <1>1, <1>2 DEF PasswordShown
<1> QED
  BY <1>3, <1>4, <1>5, <1>6, <1>7

\* A command refused.
LEMMA ConsultInv ==
  ASSUME IInv, NEW a \in Addrs, Consult(a)
  PROVE  IInv'
<1>1. Opens(a) /\ seat' = seat /\ talk' = talk
  BY DEF Consult
<1>2. TypeOK' /\ SeatedInLive' /\ IndexAgrees' /\ EmptyGroupPinned' /\ PasswordShown'
  BY <1>1, OpensInv DEF IInv, TypeOK
<1>3. DjHasMic'
  BY <1>1 DEF DjHasMic, IInv
<1> QED
  BY <1>2, <1>3 DEF IInv

\* One seat of the sender's group gets another role or microphone.
LEMMA ReseatInv ==
  ASSUME IInv, NEW a \in Addrs, Opens(a), UNCHANGED talk,
         NEW b \in Addrs, NEW new \in Seat,
         seat' = [seat EXCEPT ![indexed[a]][b] = new],
         new.role = "none" <=> seat[indexed[a]][b].role = "none",
         new.role \in {"dj", "owner"} => new.mic
  PROVE  IInv'
<1> USE DEF IInv, TypeOK
<1>1. indexed[a] \in Names
  BY DEF Opens
<1>2. /\ seat' \in [Names -> [Addrs -> Seat]]
      /\ seat'[indexed[a]][b] = new
      /\ \A h \in Names, c \in Addrs :
           h # indexed[a] \/ c # b => seat'[h][c] = seat[h][c]
  BY <1>1
<1>3. \A h \in Names, c \in Addrs :
        seat'[h][c].role = "none" <=> seat[h][c].role = "none"
  BY <1>1, <1>2
<1>4. TypeOK' /\ SeatedInLive' /\ IndexAgrees' /\ EmptyGroupPinned' /\ PasswordShown'
  BY <1>2, <1>3, OpensInv
<1>5. DjHasMic'
  <2> SUFFICES ASSUME NEW h \in Names, NEW c \in Addrs,
                      seat'[h][c].role \in {"dj", "owner"}
               PROVE  seat'[h][c].mic
    BY DEF DjHasMic
  <2>1. CASE h = indexed[a] /\ c = b
    BY <1>2, <2>1
  <2>2. CASE ~(h = indexed[a] /\ c = b)
    <3>1. seat'[h][c] = seat[h][c]
      BY <1>2, <2>2
    <3> QED
      BY <3>1 DEF DjHasMic
  <2> QED
    BY <2>1, <2>2
<1> QED
  BY <1>4, <1>5

\* The fields of a seat that is written as a record.
LEMMA SeatFields ==
  ASSUME NEW r \in Roles, NEW m \in BOOLEAN
  PROVE  /\ [role |-> r, mic |-> m] \in Seat
         /\ [role |-> r, mic |-> m].role = r
         /\ [role |-> r, mic |-> m].mic = m
BY DEF Seat

\* GRANT.
LEMMA GrantInv ==
  ASSUME IInv, NEW a \in Addrs, NEW b \in Addrs,
         NEW role \in {"dj", "listener"}, Grant(a, b, role)
  PROVE  IInv'
<1> DEFINE old == seat[indexed[a]][b]
           m == old.mic \/ role = "dj"
           new == [role |-> role, mic |-> m]
<1>1. /\ Opens(a) /\ indexed[a] \in Names /\ b \in Seated(indexed[a])
      /\ UNCHANGED talk
  BY DEF Grant, Opens, IInv, TypeOK
<1>2. seat' = [seat EXCEPT ![indexed[a]][b] = new]
  BY <1>1 DEF Grant, IInv, TypeOK
<1>3. m \in BOOLEAN /\ role \in Roles /\ (role = "dj" => m)
  BY DEF Roles
<1>4. new \in Seat /\ new.role = role /\ new.mic = m
  BY <1>3, SeatFields
<1>5. old.role # "none"
  BY <1>1 DEF Seated
<1> HIDE DEF new, m
<1>6. new.role # "none" /\ (new.role \in {"dj", "owner"} => new.mic)
  BY <1>3, <1>4
<1> QED
  BY <1>1, <1>2, <1>4, <1>5, <1>6, ReseatInv

\* MIC_ALLOW.
LEMMA MicAllowInv ==
  ASSUME IInv, NEW a \in Addrs, NEW b \in Addrs, MicAllow(a, b)
  PROVE  IInv'
<1> DEFINE old == seat[indexed[a]][b]
           new == [old EXCEPT !.mic = TRUE]
<1>1. Opens(a) /\ indexed[a] \in Names /\ UNCHANGED talk
  BY DEF MicAllow, Opens, IInv, TypeOK
<1>2. old \in Seat
  BY <1>1 DEF IInv, TypeOK
<1>3. seat' = [seat EXCEPT ![indexed[a]][b] = new]
  BY <1>1 DEF MicAllow, IInv, TypeOK
<1>4. new \in Seat /\ new.role = old.role /\ new.mic
  BY <1>2 DEF Seat
<1> HIDE DEF new
<1> QED
  BY <1>1, <1>3, <1>4, ReseatInv

\* MIC_DENY.
LEMMA MicDenyInv ==
  ASSUME IInv, NEW a \in Addrs, NEW b \in Addrs, MicDeny(a, b)
  PROVE  IInv'
<1> DEFINE old == seat[indexed[a]][b]
           new == [old EXCEPT !.mic = FALSE]
<1>1. /\ Opens(a) /\ indexed[a] \in Names /\ UNCHANGED talk
      /\ old.role = "listener"
  BY DEF MicDeny, Opens, IInv, TypeOK
<1>2. old \in Seat
  BY <1>1 DEF IInv, TypeOK
<1>3. seat' = [seat EXCEPT ![indexed[a]][b] = new]
  BY <1>1 DEF MicDeny, IInv, TypeOK
<1>4. new \in Seat /\ new.role = "listener"
  BY <1>1, <1>2 DEF Seat
<1> HIDE DEF new
<1> QED
  BY <1>1, <1>3, <1>4, ReseatInv

\* TALK.
LEMMA TalkInv ==
  ASSUME IInv, NEW a \in Addrs, NEW enable \in BOOLEAN, Talk(a, enable)
  PROVE  IInv'
<1> DEFINE g == indexed[a]
           up(b) == enable /\ seat[g][b].role = "listener"
           raised == [role |-> "dj", mic |-> TRUE]
<1> USE DEF IInv, TypeOK
<1>1. /\ Opens(a) /\ g \in Names
      /\ talk' = [talk EXCEPT ![g] = enable]
      /\ seat' = [seat EXCEPT ![g] =
                    [b \in Addrs |-> IF up(b) THEN raised ELSE seat[g][b]]]
  BY DEF Talk, Opens
<1>2. raised \in Seat /\ raised.role = "dj" /\ raised.mic
  BY DEF Seat, Roles
<1> HIDE DEF raised
<1>3. /\ seat' \in [Names -> [Addrs -> Seat]]
      /\ \A h \in Names, b \in Addrs :
           \/ seat'[h][b] = seat[h][b]
           \/ seat'[h][b] = raised /\ seat[h][b].role = "listener"
  BY <1>1, <1>2
<1>4. \A h \in Names, b \in Addrs :
        seat'[h][b].role = "none" <=> seat[h][b].role = "none"
  BY <1>2, <1>3
<1>5. /\ talk' \in [Names -> BOOLEAN]
      /\ \A h \in Names \ {g} : talk'[h] = talk[h]
  BY <1>1
<1>6. TypeOK' /\ SeatedInLive' /\ IndexAgrees' /\ EmptyGroupPinned' /\ PasswordShown'
  BY <1>1, <1>3, <1>4, <1>5, OpensInv
<1>7. DjHasMic'
  <2> SUFFICES ASSUME NEW h \in Names, NEW b \in Addrs,
                      seat'[h][b].role \in {"dj", "owner"}
               PROVE  seat'[h][b].mic
    BY DEF DjHasMic
  <2>1. CASE seat'[h][b] = seat[h][b]
    BY <2>1 DEF DjHasMic
  <2>2. CASE seat'[h][b] = raised
    BY <1>2, <2>2
  <2> QED
    BY <1>3, <2>1, <2>2
<1> QED
  BY <1>6, <1>7

-----------------------------------------------------------------------------
(* Channel records, clean-up, restart.                                     *)

\* CLAIM, RELEASE and the passing of time touch channel records alone.
LEMMA ChannelInv ==
  ASSUME IInv,
         \/ \E g \in Names, d \in Devices : Claim(g, d)
         \/ \E g \in Names : Release(g) \/ Expire(g)
  PROVE  IInv'
<1>1. /\ sender' = {} /\ UNCHANGED <<live, pass, talk, seat, indexed, shown>>
      /\ owner' \in [Names -> Devices \cup {Nobody}]
      /\ expired' \subseteq Names
  BY DEF Claim, Release, Expire, IInv, TypeOK
<1>2. TypeOK'
  BY <1>1 DEF IInv, TypeOK
<1>3. SeatedInLive' /\ IndexAgrees' /\ EmptyGroupPinned' /\ PasswordShown' /\ DjHasMic'
  BY <1>1 DEF IInv, SeatedInLive, IndexAgrees, EmptyGroupPinned, PasswordShown,
              DjHasMic, Seated
<1> QED
  BY <1>2, <1>3 DEF IInv

\* cleanup_stale.
LEMMA CleanupInv ==
  ASSUME IInv, NEW stale \in SUBSET Addrs, CleanupStale(stale)
  PROVE  IInv'
<1> DEFINE gone == {g \in live : Seated(g) # {} /\ Seated(g) \subseteq stale}
           hit  == {a \in stale : \E g \in live : a \in Seated(g)}
<1> USE DEF IInv, TypeOK
<1>1. /\ seat' = [g \in Names |->
                   [a \in Addrs |-> IF a \in stale /\ g \in live THEN Out
                                    ELSE seat[g][a]]]
      /\ live' = live \ gone
      /\ Dissolve(gone)
      /\ indexed' = [a \in Addrs |-> IF a \in hit THEN NoGroup ELSE indexed[a]]
      /\ owner' = [g \in Names |-> IF g \in expired THEN Nobody ELSE owner[g]]
      /\ expired' = {}
      /\ sender' = {} /\ UNCHANGED shown
  BY DEF CleanupStale
<1>2. \A g \in Names : Seated(g)' = Seated(g) \ stale
  <2> SUFFICES ASSUME NEW g \in Names PROVE Seated(g)' = Seated(g) \ stale
    OBVIOUS
  <2>1. CASE g \in live
    BY <1>1, <2>1 DEF Seated, Out
  <2>2. CASE g \notin live
    <3>1. Seated(g) = {}
      BY <2>2 DEF SeatedInLive
    <3> QED
      BY <1>1, <2>2, <3>1 DEF Seated
  <2> QED
    BY <2>1, <2>2
<1>3. \A a \in Addrs, g \in Names : a \in Seated(g) => g \in live
  BY DEF SeatedInLive
<1>4. TypeOK'
  <2>1. Out \in Seat
    BY DEF Out, Seat, Roles
  <2>2. seat' \in [Names -> [Addrs -> Seat]]
    BY <1>1, <2>1
  <2> QED
    BY <1>1, <2>2, MembershipAssumption DEF Dissolve
<1>5. SeatedInLive'
  <2> SUFFICES ASSUME NEW h \in Names, h \notin live'
               PROVE  Seated(h)' = {} /\ pass'[h] = NoPassword /\ ~talk'[h]
    BY DEF SeatedInLive
  <2>1. CASE h \in gone
    BY <1>1, <1>2, <2>1 DEF Dissolve
  <2>2. CASE h \notin live
    BY <1>1, <1>2, <2>2 DEF Dissolve, SeatedInLive
  <2> QED
    BY <1>1, <2>1, <2>2
<1>6. IndexAgrees'
  <2> SUFFICES ASSUME NEW h \in Names, NEW a \in Seated(h)'
               PROVE  indexed'[a] = h
    BY DEF IndexAgrees
  <2>1. a \in Seated(h) /\ a \notin stale
    BY <1>2
  <2> QED
    BY <1>1, <2>1 DEF IndexAgrees, Seated
<1>7. EmptyGroupPinned'
  <2> SUFFICES ASSUME NEW h \in live', Seated(h)' = {}
               PROVE  \E b \in Addrs : indexed'[b] = h
    BY DEF EmptyGroupPinned
  <2>1. h \in live /\ h \notin gone /\ h \in Names
    BY <1>1
  <2>2. Seated(h) = {}
    BY <1>2, <2>1
  <2>3. PICK b \in Addrs : indexed[b] = h
    BY <2>1, <2>2 DEF EmptyGroupPinned
  <2>4. b \notin hit
    BY <2>2, <2>3 DEF IndexAgrees
  <2> QED
    BY <1>1, <2>3, <2>4
<1>8. PasswordShown'
  BY <1>1, <1>2 DEF PasswordShown, Dissolve
<1>9. DjHasMic'
  <2> SUFFICES ASSUME NEW h \in Names, NEW b \in Addrs,
                      seat'[h][b].role \in {"dj", "owner"}
               PROVE  seat'[h][b].mic
    BY DEF DjHasMic
  <2>1. seat'[h][b] = seat[h][b]
    BY <1>1 DEF Out
  <2> QED
    BY <2>1 DEF DjHasMic
<1> QED
  BY <1>4, <1>5, <1>6, <1>7, <1>8, <1>9

\* Restart of the process.
LEMMA RestartInv ==
  ASSUME IInv, Restart
  PROVE  IInv'
<1>1. /\ live' = {} /\ Dissolve(Names)
      /\ seat' = [g \in Names |-> [a \in Addrs |-> Out]]
      /\ indexed' = [a \in Addrs |-> NoGroup]
      /\ sender' = {} /\ UNCHANGED <<owner, expired, shown>>
  BY DEF Restart, channels
<1>2. TypeOK'
  BY <1>1, MembershipAssumption DEF IInv, TypeOK, Dissolve, Out, Seat, Roles
<1>3. \A g \in Names : Seated(g)' = {}
  BY <1>1 DEF Seated, Out
<1>4. SeatedInLive' /\ IndexAgrees' /\ EmptyGroupPinned' /\ PasswordShown' /\ DjHasMic'
  BY <1>1, <1>3 DEF SeatedInLive, IndexAgrees, EmptyGroupPinned, PasswordShown,
                    DjHasMic, Dissolve, Out
<1> QED
  BY <1>2, <1>4 DEF IInv

-----------------------------------------------------------------------------
(* The theorems.                                                           *)

LEMMA StutterInv == IInv /\ UNCHANGED vars => IInv'
<1> SUFFICES ASSUME IInv, UNCHANGED vars PROVE IInv'
  OBVIOUS
<1> QED
  BY DEF vars, channels, IInv, TypeOK, SeatedInLive, IndexAgrees,
         EmptyGroupPinned, PasswordShown, DjHasMic, Seated

LEMMA NextInv == IInv /\ [Next]_vars => IInv'
<1> SUFFICES ASSUME IInv, [Next]_vars PROVE IInv'
  OBVIOUS
<1>1. CASE \E a \in Addrs, g \in Names, pw \in Passwords : JoinNoSeat(a, g, pw)
  BY <1>1, JoinNoSeatInv
<1>2. CASE \E a \in Addrs, g \in Names, pw \in Passwords : JoinSeat(a, g, pw)
  BY <1>2, JoinSeatInv
<1>3. CASE \E a \in Addrs : Consult(a)
  BY <1>3, ConsultInv
<1>4. CASE \E a, b \in Addrs, role \in {"dj", "listener"} : Grant(a, b, role)
  BY <1>4, GrantInv
<1>5. CASE \E a \in Addrs, enable \in BOOLEAN : Talk(a, enable)
  BY <1>5, TalkInv
<1>6. CASE \E a, b \in Addrs : MicAllow(a, b)
  BY <1>6, MicAllowInv
<1>7. CASE \E a, b \in Addrs : MicDeny(a, b)
  BY <1>7, MicDenyInv
<1>8. CASE \/ \E g \in Names, d \in Devices : Claim(g, d)
           \/ \E g \in Names : Release(g) \/ Expire(g)
  BY <1>8, ChannelInv
<1>9. CASE \E stale \in SUBSET Addrs : CleanupStale(stale)
  BY <1>9, CleanupInv
<1>10. CASE Restart
  BY <1>10, RestartInv
<1>11. CASE UNCHANGED vars
  BY <1>11, StutterInv
<1> QED
  BY <1>1, <1>2, <1>3, <1>4, <1>5, <1>6, <1>7, <1>8, <1>9, <1>10, <1>11 DEF Next

\* The inductive invariant holds in every reachable state.
THEOREM MembershipInvariant == Spec => []IInv
<1> QED
  BY InitInv, NextInv, PTL DEF Spec

\* Type correctness.
THEOREM MembershipTypeOK == Spec => []TypeOK
<1>1. IInv => TypeOK
  BY DEF IInv
<1> QED
  BY <1>1, MembershipInvariant, PTL

\* The reverse index leads from every member to its group.
THEOREM MembershipIndexAgrees == Spec => []IndexAgrees
<1>1. IInv => IndexAgrees
  BY DEF IInv
<1> QED
  BY <1>1, MembershipInvariant, PTL

\* No client sits in two groups: an entry of the index is one name.
THEOREM MembershipOneGroup == Spec => []OneGroup
<1>1. IInv => OneGroup
  BY DEF IInv, IndexAgrees, OneGroup
<1> QED
  BY <1>1, MembershipInvariant, PTL

\* A group without members is still named by some client's index entry.
THEOREM MembershipEmptyGroupPinned == Spec => []EmptyGroupPinned
<1>1. IInv => EmptyGroupPinned
  BY DEF IInv
<1> QED
  BY <1>1, MembershipInvariant, PTL

\* Nobody sits in a protected group without having shown its password.
THEOREM MembershipPasswordShown == Spec => []PasswordShown
<1>1. IInv => PasswordShown
  BY DEF IInv
<1> QED
  BY <1>1, MembershipInvariant, PTL

\* No DJ and no Owner is muted.
THEOREM MembershipDjHasMic == Spec => []DjHasMic
<1>1. IInv => DjHasMic
  BY DEF IInv
<1> QED
  BY <1>1, MembershipInvariant, PTL

-----------------------------------------------------------------------------
(* Roles, microphones and talk mode change by authority only.              *)

\* A step that gives no sitting member another seat, nor a group that goes on
\* another talk mode, needs nobody.
LEMMA NothingDecided ==
  ASSUME \A h \in Names, b \in Addrs :
           b \in Seated(h) /\ b \in Seated(h)' => seat'[h][b] = seat[h][b],
         \A h \in Names : h \in live /\ h \in live' => talk'[h] = talk[h]
  PROVE  AuthorityStep
BY DEF AuthorityStep, RoleStep, TalkStep

\* A JOIN: the client itself leaves or enters.
LEMMA AuthorityByJoin ==
  ASSUME IInv, NEW a \in Addrs, NEW g \in Names, NEW pw \in Passwords,
         JoinNoSeat(a, g, pw) \/ JoinSeat(a, g, pw)
  PROVE  AuthorityStep
<1> USE DEF IInv, TypeOK
<1>1. ASSUME NEW h \in Names, NEW b \in Addrs,
             b \in Seated(h), b \in Seated(h)', seat'[h][b] # seat[h][b]
      PROVE  FALSE
  <2>1. SeatsLeft(a, g)[h][b] = seat[h][b] \/ SeatsLeft(a, g)[h][b] = Out
    <3> HIDE DEF IInv, TypeOK
    <3>1. CASE b = a
      BY <3>1, SeatsAfterLeaving
    <3>2. CASE b # a
      BY <3>2, SeatsAfterLeaving
    <3> QED
      BY <3>1, <3>2
  <2>2. CASE seat' = SeatsLeft(a, g)
    BY <1>1, <2>1, <2>2 DEF Seated, Out
  <2>3. CASE JoinSeat(a, g, pw)
    <3>1. /\ a \notin Seated(g)
          /\ seat' = [SeatsLeft(a, g) EXCEPT ![g][a] =
                       [role |-> JoinRole(a, g), mic |-> JoinRole(a, g) # "listener"]]
      BY <2>3 DEF JoinSeat
    <3>2. ~(h = g /\ b = a)
      BY <1>1, <3>1
    <3>3. seat'[h][b] = SeatsLeft(a, g)[h][b]
      <4> HIDE DEF IInv, TypeOK
      <4>1. SeatsLeft(a, g) \in [Names -> [Addrs -> Seat]]
        BY SeatsAfterLeaving
      <4> QED
        BY <3>1, <3>2, <4>1
    <3> QED
      BY <1>1, <2>1, <3>3 DEF Seated, Out
  <2> QED
    BY <2>2, <2>3 DEF JoinNoSeat
<1>2. \A h \in Names : h \in live /\ h \in live' => talk'[h] = talk[h]
  <2>1. \A h \in Names : talk'[h] = IF h \in Emptied(a, g) THEN FALSE ELSE talk[h]
    BY DEF JoinNoSeat, JoinSeat, Dissolve
  <2>2. \A h \in Names : h \in Emptied(a, g) => h \notin live'
    BY DEF JoinNoSeat, JoinSeat, Emptied, Left
  <2> QED
    BY <2>1, <2>2
<1> QED
  BY <1>1, <1>2, NothingDecided

\* A command of a DJ or an Owner touches its own group only, and roles, unless
\* it is the Owner's, as talk mode does.
LEMMA AuthorityByCommand ==
  ASSUME IInv, NEW a \in Addrs, Opens(a), indexed[a] \in Names,
         RoleIn(a) \in {"dj", "owner"},
         \A h \in Names \ {indexed[a]} : seat'[h] = seat[h] /\ talk'[h] = talk[h],
         \/ RoleIn(a) = "owner"
         \/ \A b \in Addrs :
              \/ seat'[indexed[a]][b].role = seat[indexed[a]][b].role
              \/ talk'[indexed[a]] /\ seat[indexed[a]][b].role = "listener"
                                   /\ seat'[indexed[a]][b].role = "dj"
  PROVE  AuthorityStep
<1>1. a \in Seated(indexed[a]) /\ a \in sender'
  BY DEF RoleIn, Seated, Opens
<1>2. Decides(a, indexed[a], "dj") \/ Decides(a, indexed[a], "owner")
  BY <1>1 DEF Decides, RoleIn
<1>3. RoleIn(a) = "owner" => Decides(a, indexed[a], "owner")
  BY <1>1 DEF Decides, RoleIn
<1>4. \A g \in Names : TalkStep(g)
  BY <1>1, <1>2 DEF TalkStep
<1>5. ASSUME NEW g \in Names, NEW b \in Addrs PROVE RoleStep(g, b)
  <2>1. CASE g # indexed[a]
    BY <2>1 DEF RoleStep
  <2>2. CASE g = indexed[a]
    BY <1>1, <1>2, <1>3, <2>2 DEF RoleStep
  <2> QED
    BY <2>1, <2>2
<1> QED
  BY <1>4, <1>5 DEF AuthorityStep

LEMMA AuthorityNext == IInv /\ [Next]_vars => [AuthorityStep]_vars
<1> SUFFICES ASSUME IInv, [Next]_vars PROVE AuthorityStep \/ UNCHANGED vars
  OBVIOUS
<1> USE DEF IInv, TypeOK
<1>0. \A a \in Addrs : Opens(a) => indexed[a] \in Names
  BY DEF Opens
<1>1. CASE \E a \in Addrs, g \in Names, pw \in Passwords :
             JoinNoSeat(a, g, pw) \/ JoinSeat(a, g, pw)
  BY <1>1, AuthorityByJoin
<1>2. CASE \/ \E a \in Addrs : Consult(a)
           \/ \E g \in Names, d \in Devices : Claim(g, d)
           \/ \E g \in Names : Release(g) \/ Expire(g)
  <2>1. seat' = seat /\ talk' = talk
    BY <1>2 DEF Consult, Claim, Release, Expire
  <2> QED
    BY <2>1, NothingDecided
<1>3. CASE \E a, b \in Addrs, role \in {"dj", "listener"} : Grant(a, b, role)
  <2>1. PICK a \in Addrs, b \in Addrs, role \in {"dj", "listener"} :
          Grant(a, b, role)
    BY <1>3
  <2>2. Opens(a) /\ RoleIn(a) = "owner" /\ indexed[a] \in Names
    BY <1>0, <2>1 DEF Grant
  <2>3. \A h \in Names \ {indexed[a]} : seat'[h] = seat[h] /\ talk'[h] = talk[h]
    BY <2>1, <2>2 DEF Grant
  <2> QED
    BY <2>2, <2>3, AuthorityByCommand
<1>4. CASE \E a \in Addrs, enable \in BOOLEAN : Talk(a, enable)
  <2>1. PICK a \in Addrs, enable \in BOOLEAN : Talk(a, enable)
    BY <1>4
  <2>2. Opens(a) /\ RoleIn(a) \in {"dj", "owner"} /\ indexed[a] \in Names
    BY <1>0, <2>1 DEF Talk
  <2>3. \A h \in Names \ {indexed[a]} : seat'[h] = seat[h] /\ talk'[h] = talk[h]
    BY <2>1, <2>2 DEF Talk
  <2>4. ASSUME NEW b \in Addrs
        PROVE  \/ seat'[indexed[a]][b].role = seat[indexed[a]][b].role
               \/ talk'[indexed[a]] /\ seat[indexed[a]][b].role = "listener"
                                    /\ seat'[indexed[a]][b].role = "dj"
    <3>1. talk'[indexed[a]] = enable
      BY <2>1, <2>2 DEF Talk
    <3>2. seat'[indexed[a]][b] = IF enable /\ seat[indexed[a]][b].role = "listener"
                                 THEN [role |-> "dj", mic |-> TRUE] ELSE seat[indexed[a]][b]
      BY <2>1, <2>2 DEF Talk
    <3> QED
      BY <3>1, <3>2
  <2> QED
    BY <2>2, <2>3, <2>4, AuthorityByCommand
<1>5. CASE \E a, b \in Addrs : MicAllow(a, b) \/ MicDeny(a, b)
  <2>1. PICK a \in Addrs, b \in Addrs : MicAllow(a, b) \/ MicDeny(a, b)
    BY <1>5
  <2>2. Opens(a) /\ RoleIn(a) \in {"dj", "owner"} /\ indexed[a] \in Names
    BY <1>0, <2>1 DEF MicAllow, MicDeny
  <2>3. \A h \in Names \ {indexed[a]} : seat'[h] = seat[h] /\ talk'[h] = talk[h]
    BY <2>1, <2>2 DEF MicAllow, MicDeny
  <2>4. ASSUME NEW c \in Addrs PROVE seat'[indexed[a]][c].role = seat[indexed[a]][c].role
    <3>1. PICK m \in BOOLEAN : seat' = [seat EXCEPT ![indexed[a]][b].mic = m]
      BY <2>1 DEF MicAllow, MicDeny
    <3>2. seat[indexed[a]][b] \in Seat /\ seat[indexed[a]] \in [Addrs -> Seat]
      BY <2>2
    <3>3. seat'[indexed[a]] = [seat[indexed[a]] EXCEPT ![b].mic = m]
      BY <2>2, <3>1
    <3>4. c # b => seat'[indexed[a]][c] = seat[indexed[a]][c]
      BY <3>2, <3>3
    <3>5. PICK old \in Seat : old = seat[indexed[a]][b]
      BY <3>2
    <3>6. seat'[indexed[a]][b] = [old EXCEPT !.mic = m]
      BY <3>2, <3>3, <3>5
    <3>7. seat'[indexed[a]][b].role = seat[indexed[a]][b].role
      <4>1. [old EXCEPT !.mic = m].role = old.role
        BY DEF Seat
      <4> QED
        BY <3>5, <3>6, <4>1
    <3> QED
      BY <3>4, <3>7
  <2> QED
    BY <2>2, <2>3, <2>4, AuthorityByCommand
<1>6. CASE (\E stale \in SUBSET Addrs : CleanupStale(stale)) \/ Restart
  <2>1. \A g \in Names, a \in Addrs : seat'[g][a] = seat[g][a] \/ seat'[g][a] = Out
    <3>1. CASE Restart
      BY <3>1 DEF Restart
    <3>2. CASE \E stale \in SUBSET Addrs : CleanupStale(stale)
      BY <3>2 DEF CleanupStale
    <3> QED
      BY <1>6, <3>1, <3>2
  <2>2. Out.role = "none"
    BY DEF Out
  <2>3. \A g \in Names : g \in live /\ g \in live' => talk'[g] = talk[g]
    <3>1. CASE Restart
      BY <3>1 DEF Restart
    <3>2. CASE \E stale \in SUBSET Addrs : CleanupStale(stale)
      BY <3>2 DEF CleanupStale, Dissolve
    <3> QED
      BY <1>6, <3>1, <3>2
  <2> HIDE DEF IInv, TypeOK
  <2>4. \A g \in Names, a \in Addrs : a \in Seated(g)' => seat'[g][a] = seat[g][a]
    BY <2>1, <2>2 DEF Seated
  <2> QED
    BY <2>3, <2>4, NothingDecided
<1> QED
  BY <1>1, <1>2, <1>3, <1>4, <1>5, <1>6 DEF Next

\* A sitting member's role or microphone, and the talk mode of a group that goes
\* on, change only by the command of a DJ or an Owner who sits in that group;
\* roles, beyond talk mode, only by the Owner's (AuthorityNeeded: handle_grant,
\* handle_talk, handle_mic_allow, handle_mic_deny).
THEOREM MembershipAuthorityNeeded == Spec => AuthorityNeeded
<1> QED
  BY MembershipInvariant, AuthorityNext, PTL DEF Spec, AuthorityNeeded
=============================================================================
