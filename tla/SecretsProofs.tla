---------------------------- MODULE SecretsProofs -------------------------
(* Theorems about the Keychain items, for any users, tokens and commands,  *)
(* overlapping or not.                                                     *)
EXTENDS Secrets, TLAPS

Jobs == [step : Steps, kind : Kinds, user : Users \cup {NoItem},
         token : Tokens \cup {NoItem}, list : {NoItem} \cup Lists]

Setups == {"setup", "reconfigure"}

(* What a command that is about to store something holds. *)
StepOK(c) ==
  /\ At(c, "read token") => Is(c, "token reauth")
  /\ At(c, "copy list") => Is(c, "token reauth")
  /\ At(c, "read list") => job[c].user \in Users
  /\ At(c, "store token") =>
       /\ job[c].token \in Tokens
       /\ job[c].kind \in Setups \cup {"token set", "token reauth"}
       /\ job[c].kind \in Setups => job[c].list \in Lists \ {{}}
  /\ At(c, "store list") =>
       /\ job[c].list \in Lists \ {{}}
       /\ job[c].kind \in Setups \cup {"token reauth", "add", "remove"}
       /\ Is(c, "remove") => job[c].user \in Users

(* A list about to be stored brings nobody back but those it is meant to.  *)
HeldOK(c) ==
  At(c, "store list") =>
    (Members(job[c].list) \ Invited(c)) \cap revoked = {}

(* No other command is at work, ... *)
AloneOK(c) == Busy(c) => \A d \in Commands \ {c} : ~Busy(d)

(* ... so that what a command run alone holds is up to date. *)
ExactOK(c) ==
  /\ At(c, "store list") =>
       /\ Is(c, "add") =>
            list # Garbled /\ job[c].list = Members(list) \cup {job[c].user}
       /\ Is(c, "remove") => job[c].list = Members(list) \ {job[c].user}
       /\ Is(c, "token reauth") => job[c].list = list
  /\ At(c, "store token") /\ Is(c, "token reauth") => job[c].token = token

Inv ==
  /\ TypeOK
  /\ NeverEmptied
  /\ RevokedStayOut
  /\ \A c \in Commands : StepOK(c) /\ HeldOK(c)
  /\ \A c \in Alone : AloneOK(c) /\ ExactOK(c)

(* Members turns items into sets of users. *)
LEMMA MembersOf ==
  /\ \A l \in {NoItem} \cup Lists : Members(l) \in SUBSET Users
  /\ \A l \in SUBSET Users : Members(l) = l
  /\ Members(NoItem) = {} /\ Members(Garbled) = {}
BY ItemAssumption DEF Members, Lists

LEMMA InitInv == Init => Inv
<1> SUFFICES ASSUME Init PROVE Inv
  OBVIOUS
<1>1. \A c \in Commands : job[c] = Idle
  BY DEF Init
<1>2. TypeOK
  <2>1. Idle \in Jobs
    BY DEF Idle, Jobs, Steps, Kinds
  <2> QED
    BY <2>1 DEF Init, TypeOK, Lists, Jobs
<1>3. NeverEmptied
  BY ItemAssumption DEF Init, NeverEmptied
<1>4. RevokedStayOut
  BY DEF Init, RevokedStayOut
<1>5. ASSUME NEW c \in Commands
      PROVE  StepOK(c) /\ HeldOK(c) /\ AloneOK(c) /\ ExactOK(c)
  <2>1. job[c].step = "idle"
    BY <1>1, <1>5 DEF Idle
  <2> QED
    BY <2>1 DEF StepOK, HeldOK, AloneOK, ExactOK, At, Busy
<1> QED
  BY <1>2, <1>3, <1>4, <1>5, AloneAssumption DEF Inv

(* A step of one command that changes no item, to a job that is sound.     *)
LEMMA JobStep ==
  ASSUME Inv, NEW c \in Commands, NEW j \in Jobs,
         job' = [job EXCEPT ![c] = j],
         UNCHANGED <<token, list, daemon, revoked>>,
         (StepOK(c) /\ HeldOK(c))',
         c \in Alone => ExactOK(c)',
         Busy(c) \/ \A d \in Commands : Busy(d) => c \notin Alone /\ d \notin Alone
  PROVE  Inv'
<1>1. TypeOK'
  BY DEF Inv, TypeOK, Jobs
<1>2. NeverEmptied' /\ RevokedStayOut'
  BY DEF Inv, NeverEmptied, RevokedStayOut, Members
<1>3. job \in [Commands -> Jobs]
  BY DEF Inv, TypeOK, Jobs
<1>4. job'[c] = j /\ \A d \in Commands \ {c} : job'[d] = job[d]
  BY <1>3
<1>5. ASSUME NEW d \in Commands \ {c}
      PROVE  (StepOK(d) /\ HeldOK(d))' /\ (d \in Alone => ExactOK(d)')
  <2>1. StepOK(d)'
    BY <1>4, <1>5 DEF Inv, StepOK, At, Is
  <2>2. HeldOK(d)'
    BY <1>4, <1>5 DEF Inv, HeldOK, At, Is, Invited, Members
  <2>3. d \in Alone => ExactOK(d)'
    BY <1>4, <1>5 DEF Inv, ExactOK, At, Is, Members
  <2> QED
    BY <2>1, <2>2, <2>3
<1>6. ASSUME NEW d \in Alone
      PROVE  AloneOK(d)'
  BY <1>4, AloneAssumption DEF Inv, AloneOK, Busy, At
<1> QED
  BY <1>1, <1>2, <1>5, <1>6, AloneAssumption DEF Inv

(* The steps that change no item. *)
LEMMA ReadsPreserve ==
  ASSUME Inv, NEW c \in Commands,
         \/ \E kind \in Kinds, u \in Users : Invoke(c, kind, u)
         \/ Fails(c) \/ Check(c)
         \/ \E t \in Tokens :
              AnswerToken(c, t) \/ \E l \in Lists \ {{}} : AnswerSetup(c, t, l)
         \/ ReadToken(c) \/ CopyList(c) \/ ReadToAdd(c) \/ ReadToRemove(c)
  PROVE  Inv'
<1>1. job \in [Commands -> Jobs] /\ job[c] \in Jobs /\ Idle \in Jobs
  BY DEF Inv, TypeOK, Jobs, Idle, Steps, Kinds
<1>2. token \in Tokens \cup {NoItem} /\ list \in {NoItem} \cup Lists
      /\ list # {} /\ Members(list) \cap revoked = {}
  BY DEF Inv, TypeOK, NeverEmptied, RevokedStayOut
<1>3. StepOK(c)
  BY DEF Inv
<1>4. ASSUME Ends(c), UNCHANGED <<token, list, daemon, revoked>>, Busy(c)
      PROVE  Inv'
  <2>1. job' = [job EXCEPT ![c] = Idle] /\ job'[c].step = "idle"
    BY <1>1, <1>4 DEF Ends, Idle
  <2>2. (StepOK(c) /\ HeldOK(c) /\ ExactOK(c))'
    BY <2>1 DEF StepOK, HeldOK, ExactOK, At
  <2> QED
    BY <1>1, <1>4, <2>1, <2>2, JobStep
<1>5. ASSUME NEW kind \in Kinds, NEW u \in Users, Invoke(c, kind, u)
      PROVE  Inv'
  <2> DEFINE j == [Idle EXCEPT !.step = First(kind), !.kind = kind, !.user = u]
  <2>1. j \in Jobs
    BY DEF Jobs, Idle, First, Steps, Kinds
  <2>2. /\ j.step \in {"check", "prompt", "read token", "read list"}
        /\ j.step = "read token" => j.kind = "token reauth"
        /\ j.user \in Users
    BY DEF Idle, First, Kinds
  <2>3. job' = [job EXCEPT ![c] = j] /\ job'[c] = j
    BY <1>1, <1>5 DEF Invoke
  <2> HIDE DEF j
  <2>4. (StepOK(c) /\ HeldOK(c) /\ ExactOK(c))'
    BY <2>2, <2>3 DEF StepOK, HeldOK, ExactOK, At, Is
  <2> QED
    BY <1>5, <2>1, <2>3, <2>4, JobStep DEF Invoke
<1>6. ASSUME Fails(c)
      PROVE  Inv'
  BY <1>4, <1>6 DEF Fails
<1>7. ASSUME Check(c)
      PROVE  Inv'
  <2>1. CASE Goto(c, "prompt")
    <3> DEFINE j == [job[c] EXCEPT !.step = "prompt"]
    <3>1. j \in Jobs
      BY <1>1 DEF Jobs, Steps
    <3>2. job' = [job EXCEPT ![c] = j] /\ job'[c] = j /\ job'[c].step = "prompt"
      BY <1>1, <2>1 DEF Goto, Jobs
    <3>3. (StepOK(c) /\ HeldOK(c) /\ ExactOK(c))'
      BY <3>2 DEF StepOK, HeldOK, ExactOK, At
    <3> QED
      BY <1>7, <3>1, <3>2, <3>3, JobStep DEF Check, Busy, At
  <2>2. CASE Ends(c)
    BY <1>4, <1>7, <2>2 DEF Check, Busy, At
  <2> QED
    BY <1>7, <2>1, <2>2 DEF Check
<1>8. ASSUME NEW t \in Tokens, AnswerToken(c, t)
      PROVE  Inv'
  <2> DEFINE j == [job[c] EXCEPT !.step = "store token", !.token = t]
  <2>1. j \in Jobs
    BY <1>1 DEF Jobs, Steps
  <2>2. job' = [job EXCEPT ![c] = j] /\ job'[c] = j
    BY <1>1, <1>8 DEF AnswerToken, WillStoreToken
  <2>3. j.step = "store token" /\ j.token = t /\ j.kind = "token set"
    BY <1>1, <1>8 DEF Jobs, AnswerToken, Is
  <2>4. (StepOK(c) /\ HeldOK(c) /\ ExactOK(c))'
    BY <2>2, <2>3 DEF StepOK, HeldOK, ExactOK, At, Is, Setups
  <2> QED
    BY <1>8, <2>1, <2>2, <2>4, JobStep DEF AnswerToken, Busy, At
<1>9. ASSUME NEW t \in Tokens, NEW l \in Lists \ {{}}, AnswerSetup(c, t, l)
      PROVE  Inv'
  <2> DEFINE j == [job[c] EXCEPT !.step = "store token", !.token = t, !.list = l]
  <2>1. j \in Jobs
    BY <1>1 DEF Jobs, Steps
  <2>2. job' = [job EXCEPT ![c] = j] /\ job'[c] = j
    BY <1>1, <1>9 DEF AnswerSetup
  <2>3. j.step = "store token" /\ j.token = t /\ j.list = l /\ j.kind \in Setups
    BY <1>1, <1>9 DEF Jobs, AnswerSetup, Is, Setups
  <2>4. (StepOK(c) /\ HeldOK(c) /\ ExactOK(c))'
    BY <2>2, <2>3 DEF StepOK, HeldOK, ExactOK, At, Is, Setups
  <2> QED
    BY <1>9, <2>1, <2>2, <2>4, JobStep DEF AnswerSetup, Busy, At
<1>10. ASSUME ReadToken(c)
       PROVE  Inv'
  <2> DEFINE j == [job[c] EXCEPT !.step = "store token", !.token = token]
  <2>1. j \in Jobs
    BY <1>1, <1>2 DEF Jobs, Steps
  <2>2. job' = [job EXCEPT ![c] = j] /\ job'[c] = j
    BY <1>1, <1>10 DEF ReadToken, WillStoreToken
  <2>3. /\ j.step = "store token" /\ j.token = token /\ token \in Tokens
        /\ j.kind = "token reauth" /\ token' = token
    BY <1>1, <1>2, <1>3, <1>10 DEF Jobs, ReadToken, StepOK, At, Is
  <2>4. (StepOK(c) /\ HeldOK(c) /\ ExactOK(c))'
    BY <2>2, <2>3 DEF StepOK, HeldOK, ExactOK, At, Is, Setups
  <2> QED
    BY <1>10, <2>1, <2>2, <2>4, JobStep DEF ReadToken, Busy, At
<1>11. ASSUME NEW l \in Lists \ {{}}, WillStoreList(c, l), Busy(c),
              UNCHANGED <<token, list, daemon, revoked>>,
              job[c].kind \in {"add", "remove", "token reauth"},
              Is(c, "add") =>
                /\ list # Garbled /\ job[c].user \in Users
                /\ l = Members(list) \cup {job[c].user},
              Is(c, "remove") =>
                job[c].user \in Users /\ l = Members(list) \ {job[c].user},
              Is(c, "token reauth") => l = list
       PROVE  Inv'
  <2> DEFINE j == [job[c] EXCEPT !.step = "store list", !.list = l]
  <2>1. j \in Jobs
    BY <1>1 DEF Jobs, Steps
  <2>2. job' = [job EXCEPT ![c] = j] /\ job'[c] = j
    BY <1>1, <1>11 DEF WillStoreList
  <2>3. /\ j.step = "store list" /\ j.list = l
        /\ j.kind = job[c].kind /\ j.user = job[c].user
    BY <1>1 DEF Jobs
  <2>4. StepOK(c)'
    BY <1>11, <2>2, <2>3 DEF StepOK, At, Is
  <2>5. ExactOK(c)'
    BY <1>11, <2>2, <2>3 DEF ExactOK, At, Is, Members
  <2>6. HeldOK(c)'
    <3>1. CASE Is(c, "add")
      <4>1. l \in SUBSET Users
        BY <1>2, <1>11, <3>1, MembersOf
      <4> Members(l) = l
        BY <4>1, MembersOf
      <4>2. Members(l) \ {job[c].user} \subseteq Members(list)
        BY <1>11, <3>1
      <4>3. Invited(c)' = {job[c].user}
        BY <2>2, <2>3, <3>1 DEF Invited, Is
      <4> QED
        BY <1>2, <1>11, <2>2, <2>3, <4>2, <4>3 DEF HeldOK, Members
    <3>2. CASE Is(c, "remove") \/ Is(c, "token reauth")
      <4>1. CASE Is(c, "remove")
        <5>1. l \in SUBSET Users /\ l \subseteq Members(list)
          BY <1>2, <1>11, <4>1, MembersOf
        <5>2. Members(l) = l
          BY <5>1, MembersOf
        <5> QED
          BY <1>2, <1>11, <2>2, <2>3, <5>1, <5>2 DEF HeldOK, Members
      <4>2. CASE l = list
        BY <1>2, <1>11, <2>2, <2>3, <4>2 DEF HeldOK, Members
      <4> QED
        BY <1>11, <3>2, <4>1, <4>2
    <3> QED
      BY <1>11, <3>1, <3>2 DEF Is
  <2> QED
    BY <1>11, <2>1, <2>2, <2>4, <2>5, <2>6, JobStep
<1>12. ASSUME CopyList(c)
       PROVE  Inv'
  <2>1. Busy(c) /\ Is(c, "token reauth")
    BY <1>3, <1>12 DEF CopyList, StepOK, Busy, At
  <2>2. CASE list = NoItem
    BY <1>4, <1>12, <2>1, <2>2 DEF CopyList
  <2>3. CASE list # NoItem
    BY <1>2, <1>11, <1>12, <2>1, <2>3 DEF CopyList, Is
  <2> QED
    BY <2>2, <2>3
<1>13. ASSUME ReadToAdd(c)
       PROVE  Inv'
  <2>1. Busy(c) /\ Is(c, "add") /\ list # Garbled
    BY <1>13 DEF ReadToAdd, Busy, At
  <2>2. CASE job[c].user \in Members(list)
    BY <1>4, <1>13, <2>1, <2>2 DEF ReadToAdd
  <2>3. CASE job[c].user \notin Members(list)
    <3>1. job[c].user \in Users
      BY <1>3, <1>13 DEF ReadToAdd, StepOK
    <3>2. Members(list) \cup {job[c].user} \in Lists \ {{}}
      BY <1>2, <3>1, MembersOf DEF Lists
    <3> QED
      BY <1>11, <1>13, <2>1, <2>3, <3>1, <3>2 DEF ReadToAdd, Is
  <2> QED
    BY <2>2, <2>3
<1>14. ASSUME ReadToRemove(c)
       PROVE  Inv'
  <2>1. Busy(c) /\ Is(c, "remove")
    BY <1>14 DEF ReadToRemove, Busy, At
  <2>2. Members(list) \ {job[c].user} \in Lists \ {{}}
    <3>1. Members(list) \in SUBSET Users
      BY <1>2, MembersOf
    <3>2. Members(list) # {job[c].user} /\ job[c].user \in Members(list)
      BY <1>14 DEF ReadToRemove
    <3> QED
      BY <3>1, <3>2 DEF Lists
  <2> QED
    BY <1>3, <1>11, <1>14, <2>1, <2>2 DEF ReadToRemove, StepOK, Is
<1> QED
  BY <1>5, <1>6, <1>7, <1>8, <1>9, <1>10, <1>12, <1>13, <1>14

(* StoreToken, after which a setup or reauth goes on. *)
LEMMA StoreTokenPreserves ==
  ASSUME Inv, NEW c \in Commands, StoreToken(c)
  PROVE  Inv'
<1>1. job \in [Commands -> Jobs] /\ job[c] \in Jobs /\ Idle \in Jobs
  BY DEF Inv, TypeOK, Jobs, Idle, Steps, Kinds
<1>2. Busy(c) /\ StepOK(c) /\ token' = job[c].token /\ token' \in Tokens
  BY DEF Inv, StoreToken, StepOK, At, Busy
<1> DEFINE j == job'[c]
<1>3. /\ job' \in [Commands -> Jobs]
      /\ \A d \in Commands \ {c} : job'[d] = job[d]
      /\ \/ j.step = "idle"
         \/ j.step = "copy list" /\ j.kind = "token reauth"
         \/ /\ j.step = "store list" /\ j.kind \in Setups
            /\ j.list = job[c].list /\ job[c].kind = j.kind
  <2>1. CASE Is(c, "token set")
    <3>1. job' = [job EXCEPT ![c] = Idle]
      BY <2>1 DEF StoreToken, Ends, Is
    <3> QED
      BY <1>1, <3>1 DEF Idle
  <2>2. CASE Is(c, "token reauth")
    <3>1. job' = [job EXCEPT ![c].step = "copy list"]
      BY <2>2 DEF StoreToken, Is, Goto
    <3> QED
      BY <1>1, <2>2, <3>1 DEF Jobs, Steps, Is
  <2>3. CASE job[c].kind \in Setups
    <3>1. job' = [job EXCEPT ![c].step = "store list"]
      BY <2>3 DEF StoreToken, Is, Goto, Setups
    <3> QED
      BY <1>1, <2>3, <3>1 DEF Jobs, Steps, Setups
  <2> QED
    BY <1>2, <2>1, <2>2, <2>3 DEF StepOK, StoreToken, Is
<1>4. \A d \in Commands \ {c} : job'[d] = job[d]
  BY <1>3
<1>5. UNCHANGED <<list, daemon, revoked>>
  BY DEF StoreToken
<1>6. TypeOK'
  BY <1>1, <1>2, <1>3, <1>5 DEF Inv, TypeOK, Jobs
<1>7. NeverEmptied' /\ RevokedStayOut'
  BY <1>5 DEF Inv, NeverEmptied, RevokedStayOut, Members
<1>8. (StepOK(c) /\ HeldOK(c) /\ ExactOK(c))'
  <2>1. StepOK(c)'
    BY <1>2, <1>3 DEF StepOK, StoreToken, At, Is, Setups
  <2>2. HeldOK(c)'
    BY <1>3 DEF HeldOK, At, Is, Invited, Members, Setups
  <2>3. ExactOK(c)'
    BY <1>3 DEF ExactOK, At, Is, Setups
  <2> QED
    BY <2>1, <2>2, <2>3
<1>9. ASSUME NEW d \in Commands \ {c}
      PROVE  (StepOK(d) /\ HeldOK(d))' /\ (d \in Alone => ExactOK(d)')
  <2>1. StepOK(d)'
    BY <1>4, <1>9 DEF Inv, StepOK, At, Is
  <2>2. HeldOK(d)'
    BY <1>4, <1>5, <1>9 DEF Inv, HeldOK, At, Is, Invited, Members
  <2>3. ASSUME d \in Alone
        PROVE  ExactOK(d)'
    <3>1. ~Busy(d)
      BY <1>2, <1>9, <2>3 DEF Inv, AloneOK
    <3> QED
      BY <1>4, <1>9, <3>1 DEF ExactOK, Busy, At
  <2> QED
    BY <2>1, <2>2, <2>3
<1>10. ASSUME NEW d \in Alone
       PROVE  AloneOK(d)'
  BY <1>2, <1>4, <1>10, AloneAssumption DEF Inv, AloneOK, Busy, At
<1> QED
  BY <1>6, <1>7, <1>8, <1>9, <1>10, AloneAssumption DEF Inv

(* A command ends, having made the whitelist l. *)
LEMMA ListPreserves ==
  ASSUME Inv, NEW c \in Commands, Busy(c), Ends(c), UNCHANGED <<token, daemon>>,
         NEW l \in {NoItem} \cup Lists, l # {}, list' = l,
         revoked' \in SUBSET Users, Members(l) \cap revoked' = {},
         revoked' \subseteq revoked \/ c \in Alone
  PROVE  Inv'
<1>1. job \in [Commands -> Jobs] /\ Idle \in Jobs
  BY DEF Inv, TypeOK, Jobs, Idle, Steps, Kinds
<1>2. job'[c] = Idle /\ \A d \in Commands \ {c} : job'[d] = job[d]
  BY <1>1 DEF Ends
<1>3. TypeOK'
  BY <1>1 DEF Inv, TypeOK, Jobs, Ends
<1>4. NeverEmptied' /\ RevokedStayOut'
  BY DEF NeverEmptied, RevokedStayOut, Members
<1>5. (StepOK(c) /\ HeldOK(c) /\ ExactOK(c))'
  BY <1>2 DEF StepOK, HeldOK, ExactOK, At, Idle
<1>6. ASSUME NEW d \in Commands \ {c}
      PROVE  (StepOK(d) /\ HeldOK(d))' /\ (d \in Alone => ExactOK(d)')
  <2>1. StepOK(d)'
    BY <1>2, <1>6 DEF Inv, StepOK, At, Is
  <2>2. CASE c \in Alone \/ d \in Alone
    <3>1. ~Busy(d)
      BY <1>6, <2>2 DEF Inv, AloneOK
    <3> QED
      BY <1>2, <1>6, <2>1, <3>1 DEF HeldOK, ExactOK, Busy, At
  <2>3. CASE c \notin Alone /\ d \notin Alone
    BY <1>2, <1>6, <2>1, <2>3 DEF Inv, HeldOK, At, Is, Invited, Members
  <2> QED
    BY <2>2, <2>3
<1>7. ASSUME NEW d \in Alone
      PROVE  AloneOK(d)'
  BY <1>2, <1>7, AloneAssumption DEF Inv, AloneOK, Busy, At, Idle
<1> QED
  BY <1>3, <1>4, <1>5, <1>6, <1>7, AloneAssumption DEF Inv

LEMMA StoreListPreserves ==
  ASSUME Inv, NEW c \in Commands, StoreList(c)
  PROVE  Inv'
<1> DEFINE l == job[c].list
<1>1. /\ At(c, "store list") /\ Busy(c)
      /\ StepOK(c) /\ HeldOK(c) /\ (c \in Alone => ExactOK(c))
      /\ revoked \in SUBSET Users /\ list \in {NoItem} \cup Lists
  BY DEF Inv, StoreList, Busy, At, TypeOK
<1>2. /\ l \in Lists \ {{}} /\ Members(l) \in SUBSET Users
      /\ job[c].kind \in Setups \cup {"token reauth", "add", "remove"}
  BY <1>1, MembersOf DEF StepOK
<1>3. revoked' = (revoked \ Invited(c)) \cup (IF c \in Alone THEN Expelled(c) ELSE {})
  BY DEF StoreList, Revokes
<1>4. Expelled(c) \in SUBSET Users
  BY <1>1, <1>2 DEF Expelled, StepOK, Is, Setups
<1>5. c \in Alone => Members(l) \cap Expelled(c) = {}
  <2>1. CASE Is(c, "remove")
    <3>1. Expelled(c) = {job[c].user}
      BY <2>1 DEF Expelled, Is
    <3>2. ASSUME c \in Alone
          PROVE  job[c].user \notin Members(l)
      <4>1. l = Members(list) \ {job[c].user}
        BY <1>1, <2>1, <3>2 DEF ExactOK
      <4>2. l \in SUBSET Users
        BY <1>1, <4>1, MembersOf
      <4>3. Members(l) = l
        BY <4>2, MembersOf
      <4> QED
        BY <4>1, <4>3
    <3> QED
      BY <3>1, <3>2
  <2>2. CASE ~Is(c, "remove")
    BY <1>2, <2>2 DEF Expelled, Is, Setups
  <2> QED
    BY <2>1, <2>2
<1>6. Members(l) \cap revoked' = {}
  BY <1>1, <1>3, <1>5 DEF HeldOK
<1>7. revoked' \in SUBSET Users /\ (revoked' \subseteq revoked \/ c \in Alone)
  BY <1>1, <1>3, <1>4
<1> QED
  BY <1>1, <1>2, <1>6, <1>7, ListPreserves DEF StoreList

LEMMA ClearListPreserves ==
  ASSUME Inv, NEW c \in Commands, ClearList(c)
  PROVE  Inv'
<1>1. Busy(c) /\ revoked \in SUBSET Users
  BY DEF Inv, ClearList, Busy, At, TypeOK
<1>2. Invited(c) = {} /\ Expelled(c) = Users
  BY DEF ClearList, Invited, Expelled, Is
<1>3. revoked' \in SUBSET Users /\ (revoked' \subseteq revoked \/ c \in Alone)
  BY <1>1, <1>2 DEF ClearList, Revokes
<1>4. NoItem # {} /\ Members(NoItem) = {}
  BY MembersOf, ItemAssumption
<1> QED
  BY <1>1, <1>3, <1>4, ListPreserves DEF ClearList

(* The remaining steps: the token is cleared, and what the daemon does.    *)
LEMMA OthersPreserve ==
  ASSUME Inv,
         LoadToken \/ LoadList \/ Exit \/ \E c \in Commands : ClearToken(c)
  PROVE  Inv'
<1>1. ASSUME LoadToken \/ LoadList \/ Exit
      PROVE  Inv'
  <2>1. UNCHANGED <<token, list, job, revoked>>
    BY <1>1 DEF LoadToken, LoadList, Exit
  <2>2. daemon' \in [step : {"loading", "up"}, token : Tokens, allowed : SUBSET Users]
                    \cup {Down}
    <3>1. token \in Tokens \cup {NoItem} /\ Members(list) \in SUBSET Users
      BY MembersOf DEF Inv, TypeOK
    <3>2. CASE LoadToken
      BY <3>1, <3>2 DEF LoadToken, Down
    <3>3. CASE LoadList
      <4> DEFINE Loaded == [step : {"loading", "up"}, token : Tokens,
                            allowed : SUBSET Users]
      <4>1. daemon \in Loaded
        BY <3>3 DEF Inv, TypeOK, LoadList, Down
      <4>2. daemon' = [daemon EXCEPT !.step = "up", !.allowed = Members(list)]
        BY <3>3 DEF LoadList
      <4> QED
        BY <3>1, <4>1, <4>2
    <3>4. CASE Exit
      BY <3>4 DEF Exit
    <3> QED
      BY <1>1, <3>2, <3>3, <3>4
  <2>3. TypeOK' /\ NeverEmptied' /\ RevokedStayOut'
    BY <2>1, <2>2 DEF Inv, TypeOK, NeverEmptied, RevokedStayOut, Members
  <2>4. \A c \in Commands : (StepOK(c) /\ HeldOK(c))'
    BY <2>1 DEF Inv, StepOK, HeldOK, At, Is, Invited, Members
  <2>5. \A c \in Alone : (AloneOK(c) /\ ExactOK(c))'
    BY <2>1 DEF Inv, AloneOK, ExactOK, Busy, At, Is, Members
  <2> QED
    BY <2>3, <2>4, <2>5 DEF Inv
<1>2. ASSUME NEW c \in Commands, ClearToken(c)
      PROVE  Inv'
  <2>1. job \in [Commands -> Jobs] /\ Idle \in Jobs /\ Busy(c)
    BY <1>2 DEF Inv, TypeOK, Jobs, Idle, Steps, Kinds, ClearToken, Busy, At
  <2>2. /\ job'[c].step = "idle" /\ \A d \in Commands \ {c} : job'[d] = job[d]
        /\ token' = NoItem /\ UNCHANGED <<list, daemon, revoked>>
    BY <1>2, <2>1 DEF ClearToken, Ends, Idle
  <2>3. TypeOK'
    BY <1>2, <2>1, <2>2 DEF Inv, TypeOK, Jobs, ClearToken, Ends
  <2>4. NeverEmptied' /\ RevokedStayOut'
    BY <2>2 DEF Inv, NeverEmptied, RevokedStayOut, Members
  <2>5. (StepOK(c) /\ HeldOK(c) /\ ExactOK(c))'
    BY <2>2 DEF StepOK, HeldOK, ExactOK, At
  <2>6. ASSUME NEW d \in Commands \ {c}
        PROVE  (StepOK(d) /\ HeldOK(d))' /\ (d \in Alone => ExactOK(d)')
    <3>1. StepOK(d)' /\ HeldOK(d)'
      BY <2>2, <2>6 DEF Inv, StepOK, HeldOK, At, Is, Invited, Members
    <3>2. ASSUME d \in Alone
          PROVE  ExactOK(d)'
      <4>1. ~Busy(d)
        BY <2>1, <2>6, <3>2 DEF Inv, AloneOK
      <4> QED
        BY <2>2, <2>6, <4>1 DEF ExactOK, Busy, At
    <3> QED
      BY <3>1, <3>2
  <2>7. ASSUME NEW d \in Alone
        PROVE  AloneOK(d)'
    BY <2>1, <2>2, <2>7, AloneAssumption DEF Inv, AloneOK, Busy, At
  <2> QED
    BY <2>3, <2>4, <2>5, <2>6, <2>7, AloneAssumption DEF Inv
<1> QED
  BY <1>1, <1>2

LEMMA NextInv == Inv /\ [Next]_vars => Inv'
<1> SUFFICES ASSUME Inv, [Next]_vars PROVE Inv'
  OBVIOUS
<1>1. ASSUME NEW c \in Commands, Command(c)
      PROVE  Inv'
  BY <1>1, ReadsPreserve, StoreTokenPreserves, StoreListPreserves,
     ClearListPreserves, OthersPreserve DEF Command
<1>2. CASE LoadToken \/ LoadList \/ Exit
  BY <1>2, OthersPreserve
<1>3. CASE UNCHANGED vars
  <2>1. UNCHANGED <<token, list, job, daemon, revoked>>
    BY <1>3 DEF vars
  <2>2. TypeOK' /\ NeverEmptied' /\ RevokedStayOut'
    BY <2>1 DEF Inv, TypeOK, NeverEmptied, RevokedStayOut, Members
  <2>3. \A c \in Commands : (StepOK(c) /\ HeldOK(c))'
    BY <2>1 DEF Inv, StepOK, HeldOK, At, Is, Invited, Members
  <2>4. \A c \in Alone : (AloneOK(c) /\ ExactOK(c))'
    BY <2>1 DEF Inv, AloneOK, ExactOK, Busy, At, Is, Members
  <2> QED
    BY <2>2, <2>3, <2>4 DEF Inv
<1> QED
  BY <1>1, <1>2, <1>3 DEF Next

THEOREM InvHolds == Spec => []Inv
BY InitInv, NextInv, PTL DEF Spec

(* Every variable keeps its type. *)
THEOREM TypeCorrect == Spec => []TypeOK
<1>1. Inv => TypeOK
  BY DEF Inv
<1> QED
  BY <1>1, InvHolds, PTL

(* Removals, overlapping or not, never leave a whitelist with nobody on it.*)
THEOREM SomebodyStays == Spec => []NeverEmptied
<1>1. Inv => NeverEmptied
  BY DEF Inv
<1> QED
  BY <1>1, InvHolds, PTL

(* A user taken off the whitelist by a command run alone comes back only   *)
(* by a command that names the user.                                       *)
THEOREM RevocationLasts == Spec => []RevokedStayOut
<1>1. Inv => RevokedStayOut
  BY DEF Inv
<1> QED
  BY <1>1, InvHolds, PTL

(* A command run alone loses no update, and reauth changes no value. *)
THEOREM AloneLosesNothing == Spec => AloneIsExact
<1>1. Inv /\ [Next]_vars => [\A c \in Alone : Exact(c)]_vars
  <2> SUFFICES ASSUME Inv, NEW c \in Alone PROVE Exact(c)
    OBVIOUS
  <2>1. ExactOK(c)
    BY DEF Inv
  <2>2. ASSUME StoreList(c)
        PROVE  At(c, "store list") /\ list' = job[c].list
    BY <2>2 DEF StoreList
  <2>3. ASSUME StoreToken(c)
        PROVE  At(c, "store token") /\ token' = job[c].token
    BY <2>3 DEF StoreToken
  <2> QED
    BY <2>1, <2>2, <2>3 DEF Exact, ExactOK, Is
<1> QED
  BY <1>1, InvHolds, PTL DEF Spec, AloneIsExact, Exact
===========================================================================
