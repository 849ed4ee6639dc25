----------------------------- MODULE AxspawnLogin -----------------------------
(***************************************************************************)
(* axspawn from the call to the session: several callers at a time, the    *)
(* account that is made for a new one, the password files, and the table   *)
(* of the kernel that gives a uid its callsign.  The administrator may     *)
(* edit /etc/passwd without the lock of axspawn.  The theorem at the end   *)
(* is about any number of callers, names and accounts.                     *)
(***************************************************************************)
EXTENDS Integers, Sequences, FiniteSets, FiniteSetsExt, SequencesExt,
        TLAPS, FiniteSetTheorems, WellFoundedInduction

CONSTANTS
  Callers,       \* processes: one for each call
  Name,          \* [Callers -> names]: the callsign without SSID, or the name given with -c
  Known,         \* [names in /etc/passwd from the start -> uid]
  Changed,       \* callers that gave a name of their own (-c)
  Guest,         \* the guest's name; NoName without a guest
  NoName,
  AddUser, UserAdd, Associate, RootLogin, \* create, create_with_useradd, associate, -r
  start_uid, MaxUid,
  SystemLines,   \* what /etc/ax25/bcpasswd may hold: sequences of lines
  HomeLines,     \* what .bcpasswd of a user may hold
  PwTypes,       \* the mechanisms that are allowed: a subset of clear, sys, md5, unix
  MaxAdmin       \* bound: accounts added by the administrator

ASSUME LoginConstants ==
  /\ NoName \notin Callers
  /\ IsFiniteSet(DOMAIN Known) /\ Known \in [DOMAIN Known -> Nat]
  /\ {start_uid, MaxUid} \subseteq Nat

VARIABLES
  passwd,  \* sequence of [name, uid, by]
  flock,   \* the process that holds LOCK_AXSPAWN_FILE, or NoName
  assoc,   \* the kernel's table: set of [uid, call]
  stage, uid, \* [Callers -> ...]; NoUid is no account
  pwtype,  \* [Callers -> the mechanisms still allowed]
  profile, \* [names -> uid of the owner of .profile]
  admin
login_vars == <<passwd, flock, assoc, stage, uid, pwtype, profile, admin>>

NoUid == -1
Names == {Name[p] : p \in Callers} \cup DOMAIN Known \cup {Guest}

LoginInit ==
  /\ passwd = SetToSeq({[name |-> n, uid |-> Known[n], by |-> "admin"] : n \in DOMAIN Known})
  /\ flock = NoName /\ assoc = {} /\ admin = 0
  /\ stage = [p \in Callers |-> "lookup"] /\ uid = [p \in Callers |-> NoUid]
  /\ pwtype = [p \in Callers |-> PwTypes]
  /\ profile = [n \in Names |-> NoUid]

-----------------------------------------------------------------------------
(* access.c *)

\* A line is [name, kind, long]: kind "only" is systempasswordonly, "bad" one
\* without a colon, and long says that the password is not too short.
Found(l, types) == l.kind \in types \ {"clear"}

\* Mutant: the lines after systempasswordonly are not read.
ScanShort(lines, name, types) == IF lines # <<>> /\ lines[1].kind = "only" THEN [hit |-> 0, only |-> TRUE]
                                  ELSE [hit |-> 0, only |-> FALSE]

\* One file: the number of the line found, 0 for none, and whether
\* systempasswordonly was met before.
Scan(lines, name, types) ==
  LET after[i \in 0..Len(lines)] ==
        IF i = 0 THEN [hit |-> 0, only |-> FALSE]
        ELSE IF after[i - 1].hit # 0 THEN after[i - 1]
        ELSE IF lines[i].kind = "only" THEN [after[i - 1] EXCEPT !.only = TRUE]
        ELSE IF lines[i].name = name /\ Found(lines[i], types) THEN [after[i - 1] EXCEPT !.hit = i]
        ELSE after[i - 1]
  IN after[Len(lines)]

\* read_pwd: the mechanism that results, "deny" for none, and whose password.
read_pwd(name, system, home, types) ==
  LET s == Scan(system, name, types)
      h == Scan([i \in DOMAIN home |-> [home[i] EXCEPT !.name = name,
                                                       !.kind = IF @ = "only" THEN "bad" ELSE @]],
                name, types)
      Fallback == IF "clear" \in types THEN "clear" ELSE "deny"
      Accept(l, file) == IF l.kind = "unix" THEN [type |-> "clear", file |-> file]
                         ELSE IF l.long THEN [type |-> l.kind, file |-> file]
                         ELSE [type |-> "deny", file |-> file]
  IN IF s.hit # 0 THEN Accept(system[s.hit], "system")
     ELSE IF s.only \/ h.hit = 0 THEN [type |-> Fallback, file |-> "none"]
     ELSE Accept(home[h.hit], "home")

-----------------------------------------------------------------------------
(* new_user *)

Goto(p, l) == stage' = [stage EXCEPT ![p] = l]
getpwnam(n) == IF \E i \in DOMAIN passwd : passwd[i].name = n
               THEN (passwd[Min({i \in DOMAIN passwd : passwd[i].name = n})]).uid ELSE NoUid
Taken == {passwd[i].uid : i \in DOMAIN passwd}

\* Mutant: the lock is taken by nobody.
LockFree(p) == TRUE
LockIsFree(p) == flock = NoName

Lock(p) == /\ stage[p] = "new_user" /\ LockIsFree(p)
           /\ flock' = p /\ Goto(p, "search")
           /\ UNCHANGED <<passwd, assoc, uid, pwtype, profile, admin>>

\* The first uid that is free, and the directories, which may fail.
FindUid(p) ==
  /\ stage[p] = "search"
  /\ \/ \E u \in {Min(((start_uid..MaxUid) \ Taken) \cup {MaxUid + 1})} :
          IF u > MaxUid THEN Goto(p, "unlock") /\ UNCHANGED uid
          ELSE uid' = [uid EXCEPT ![p] = u] /\ Goto(p, IF UserAdd THEN "useradd" ELSE "putpwent")
     \/ Goto(p, "unlock") /\ UNCHANGED uid
  /\ UNCHANGED <<passwd, flock, assoc, pwtype, profile, admin>>

PwLine(p, by) == [name |-> Name[p], uid |-> uid[p], by |-> by]

\* Looked at once more, and the line is written when the file is closed.
CheckUid(p) ==
  /\ stage[p] = "putpwent"
  /\ Goto(p, IF uid[p] \in Taken THEN "search" ELSE "fclose")
  /\ UNCHANGED <<passwd, flock, assoc, uid, pwtype, profile, admin>>
PutPw(p) ==
  /\ stage[p] = "fclose" /\ passwd' = Append(passwd, PwLine(p, p)) /\ Goto(p, "profile")
  /\ UNCHANGED <<flock, assoc, uid, pwtype, profile, admin>>

\* useradd refuses a name or uid that is there; its result is not looked at.
ForkUseradd(p) ==
  /\ stage[p] = "useradd" /\ Goto(p, "profile")
  /\ passwd' = IF getpwnam(Name[p]) # NoUid \/ uid[p] \in Taken THEN passwd ELSE Append(passwd, PwLine(p, p))
  /\ UNCHANGED <<flock, assoc, uid, pwtype, profile, admin>>

CopyProfile(p) ==
  /\ stage[p] = "profile" /\ Goto(p, "unlock")
  /\ profile' = [profile EXCEPT ![Name[p]] = uid[p]]
  /\ UNCHANGED <<passwd, flock, assoc, uid, pwtype, admin>>

Unlock(p) == /\ stage[p] = "unlock" /\ flock' = NoName /\ Goto(p, "again")
             /\ UNCHANGED <<passwd, assoc, uid, pwtype, profile, admin>>

-----------------------------------------------------------------------------
(* main *)

Lookup(p) ==
  /\ stage[p] = "lookup"
  /\ uid' = [uid EXCEPT ![p] = IF getpwnam(Name[p]) # NoUid THEN getpwnam(Name[p])
                                ELSE IF p \notin Changed /\ ~AddUser /\ Guest # NoName THEN getpwnam(Guest)
                                ELSE NoUid]
  /\ Goto(p, IF uid'[p] # NoUid THEN (IF uid'[p] = 0 /\ ~RootLogin THEN "denied" ELSE "password")
             ELSE IF p \in Changed \/ ~AddUser THEN "denied" ELSE "new_user")
  /\ UNCHANGED <<passwd, flock, assoc, pwtype, profile, admin>>

\* With an account that could not be made the call ends.
LookupAgain(p) ==
  /\ stage[p] = "again" /\ uid' = [uid EXCEPT ![p] = getpwnam(Name[p])]
  /\ Goto(p, IF uid'[p] # NoUid THEN "password" ELSE "denied")
  /\ UNCHANGED <<passwd, flock, assoc, pwtype, profile, admin>>

\* The challenge and its answer, or the password that login will ask for.
\* Who answers "sys" is asked again without md5.  No plaintext for root.
Password(p) ==
  /\ stage[p] = "password"
  /\ \E system \in SystemLines, home \in HomeLines, answer \in {"right", "wrong", "sys"} :
     LET pw == read_pwd(Name[p], system, home, pwtype[p])
         again == pw.type = "md5" /\ answer = "sys" /\ "sys" \in PwTypes
         denied == pw.type = "deny" \/ (pw.type = "clear" /\ uid[p] = 0)
                   \/ (pw.type \in {"sys", "md5"} /\ answer # "right")
     IN /\ pwtype' = [pwtype EXCEPT ![p] = IF again THEN PwTypes \ {"md5"} ELSE @]
        /\ Goto(p, IF again THEN "password" ELSE IF denied THEN "denied"
                   ELSE IF Associate THEN "delete" ELSE "session")
  /\ UNCHANGED <<passwd, flock, assoc, uid, profile, admin>>

\* get_assoc and SIOCAX25DELUID, which goes by the call it has read.
DelUid(p) ==
  /\ stage[p] = "delete" /\ Goto(p, "associate")
  /\ assoc' = {a \in assoc : a.uid # uid[p]}
  /\ UNCHANGED <<passwd, flock, uid, pwtype, profile, admin>>

\* SIOCAX25ADDUID refuses a uid that is there.
AddUid(p) ==
  /\ stage[p] = "associate" /\ Goto(p, "session")
  /\ assoc' = IF \E a \in assoc : a.uid = uid[p] THEN assoc ELSE assoc \cup {[uid |-> uid[p], call |-> p]}
  /\ UNCHANGED <<passwd, flock, uid, pwtype, profile, admin>>

Ends(p) == stage[p] = "session" /\ Goto(p, "ended") /\ UNCHANGED <<passwd, flock, assoc, uid, pwtype, profile, admin>>

AdminAdds == /\ admin < MaxAdmin /\ admin' = admin + 1
             /\ \E u \in (start_uid..MaxUid) \ Taken :
                  passwd' = Append(passwd, [name |-> NoName, uid |-> u, by |-> "admin"])
             /\ UNCHANGED <<flock, assoc, stage, uid, pwtype, profile>>

LoginNext ==
  \/ \E p \in Callers :
       \/ Lookup(p) \/ Lock(p) \/ FindUid(p) \/ CheckUid(p) \/ PutPw(p) \/ ForkUseradd(p)
       \/ CopyProfile(p) \/ Unlock(p) \/ LookupAgain(p) \/ Password(p) \/ DelUid(p) \/ AddUid(p) \/ Ends(p)
  \/ AdminAdds
LoginSpec == LoginInit /\ [][LoginNext]_login_vars

-----------------------------------------------------------------------------
InSession(p) == stage[p] \in {"session", "ended"}
OwnUids == \A i, k \in DOMAIN passwd :
             passwd[i].uid = passwd[k].uid /\ i # k => "admin" \in {passwd[i].by, passwd[k].by}
Accounted(p) == uid[p] \in {getpwnam(Name[p]), getpwnam(Guest)} \ {NoUid}

\* axspawn.c:1058: callers that are new at the same time get different uids,
\* unless the administrator takes one at that moment; each session runs with
\* the account of its name; and a uid with a session has the callsign of one
\* of its callers, whatever was removed and added in between.
LoginRight ==
  /\ OwnUids
  /\ \A p \in Callers : InSession(p) => Accounted(p)
  /\ \A p \in Callers :
       Associate /\ InSession(p) /\ (\A q \in Callers : uid[q] = uid[p] => stage[q] # "associate")
         => \E a \in assoc : a.uid = uid[p] /\ uid[a.call] = uid[p]

\* axspawn.8:41-49: the system's file is read before the user's, and its first
\* line that fits decides, a password that is too short included; the user's
\* file counts only if there is none and no systempasswordonly.
FirstFileDecides ==
  \A system \in SystemLines, home \in HomeLines, n \in Names, types \in SUBSET {"clear", "sys", "md5", "unix"} :
    LET pw == read_pwd(n, system, home, types)
        fits == {i \in DOMAIN system : system[i].name = n /\ system[i].kind \in types \cap {"sys", "md5", "unix"}}
    IN /\ fits # {} => /\ pw.file = "system"
                       /\ pw.type \in {"sys", "md5"} => pw.type = (system[Min(fits)]).kind /\ (system[Min(fits)]).long
       /\ fits = {} /\ (\E i \in DOMAIN system : system[i].kind = "only") => pw.file = "none"
       /\ "clear" \notin types /\ pw.file = "none" => pw.type = "deny"

-----------------------------------------------------------------------------
(* What an account is made of, and when *)

PwLines == [name : Names \cup {NoName}, uid : Int, by : Callers \cup {"admin"}]
AtLock == {"search", "putpwent", "fclose", "useradd", "profile", "unlock"}
Admitted == {"password", "delete", "associate", "session", "ended"}

LoginTypeOK ==
  /\ passwd \in Seq(PwLines)
  /\ stage \in [Callers -> AtLock \cup Admitted \cup {"lookup", "new_user", "again", "denied"}]
  /\ uid \in [Callers -> Int]
  /\ assoc \subseteq [uid : Int, call : Callers]

\* Who is about to write a line holds the lock, and its uid was free when it
\* last looked, unless the administrator has taken it since.
LockHeld == \A p \in Callers : stage[p] \in AtLock => flock = p
StillFree == \A p \in Callers : stage[p] = "fclose" =>
               \A i \in DOMAIN passwd : passwd[i].uid = uid[p] => passwd[i].by = "admin"

\* Who has been let in has an account, and lines are only ever added.
HasAccount == \A p \in Callers : stage[p] \in Admitted => Accounted(p)

\* The kernel's table: each entry is of a session, and of each uid in a session
\* there is one, unless a caller is between removing it and adding its own.
EntriesOfSessions == \A a \in assoc : InSession(a.call) /\ uid[a.call] = a.uid
HasCall(p) == (\E a \in assoc : a.uid = uid[p]) \/ (\E q \in Callers : uid[q] = uid[p] /\ stage[q] = "associate")
SessionsHaveCalls == Associate => \A p \in Callers : InSession(p) => HasCall(p)

LoginInv == LoginTypeOK /\ OwnUids /\ LockHeld /\ StillFree /\ HasAccount /\ EntriesOfSessions /\ SessionsHaveCalls

-----------------------------------------------------------------------------
(* The lines of /etc/passwd *)

\* Min finds the least of some naturals.
LEMMA MinIsIn ==
  ASSUME NEW T \in SUBSET Nat, T # {}
  PROVE  Min(T) \in T /\ \A m \in T : Min(T) <= m
<1>1. PICK n \in T : \A m \in T : ~(<<m, n>> \in OpToRel(<, Nat))
  BY NatLessThanWellFounded, WFMin
<1>2. \A m \in T : m < n => <<m, n>> \in OpToRel(<, Nat)
  BY DEF OpToRel
<1>3. \A m \in T : ~(m < n)
  BY <1>1, <1>2, Zenon
<1>4. \A m \in T : n <= m
  BY <1>3
<1> QED BY <1>4 DEF Min

\* getpwnam finds a line of that name, if there is one.
LEMMA Getpwnam ==
  ASSUME LoginTypeOK, NEW n
  PROVE  LET I == {i \in DOMAIN passwd : passwd[i].name = n} IN
         /\ I # {} => /\ Min(I) \in I /\ \A i \in I : Min(I) <= i
                      /\ getpwnam(n) = passwd[Min(I)].uid
         /\ I = {} => getpwnam(n) = NoUid
         /\ getpwnam(n) \in Int
<1> DEFINE I == {i \in DOMAIN passwd : passwd[i].name = n}
<1>1. I \in SUBSET Nat
  BY DEF LoginTypeOK
<1>2. I # {} => Min(I) \in I /\ \A i \in I : Min(I) <= i
  BY <1>1, MinIsIn
<1>3. (\E i \in DOMAIN passwd : passwd[i].name = n) <=> I # {}
  OBVIOUS
<1>4. getpwnam(n) = IF I # {} THEN passwd[Min(I)].uid ELSE NoUid
  BY <1>3 DEF getpwnam
<1>5. \A i \in DOMAIN passwd : passwd[i].uid \in Int
  <2>1. passwd \in Seq(PwLines)
    BY DEF LoginTypeOK
  <2>2. \A i \in DOMAIN passwd : passwd[i] \in PwLines
    BY <2>1
  <2> QED BY <2>2 DEF PwLines
<1>6. getpwnam(n) \in Int
  <2>1. I # {} => Min(I) \in DOMAIN passwd
    BY <1>2
  <2> QED BY <1>4, <1>5, <2>1 DEF NoUid
<1>7. /\ I # {} => /\ Min(I) \in I /\ \A i \in I : Min(I) <= i
                   /\ getpwnam(n) = passwd[Min(I)].uid
      /\ I = {} => getpwnam(n) = NoUid
  BY <1>2, <1>4
<1> QED BY <1>6, <1>7

\* A line more changes nothing for a name that is there.
LEMMA LinesStay ==
  ASSUME LoginTypeOK, NEW e \in PwLines, passwd' = Append(passwd, e)
  PROVE  /\ passwd' \in Seq(PwLines)
         /\ \A i \in DOMAIN passwd' : \/ i \in DOMAIN passwd /\ passwd'[i] = passwd[i]
                                      \/ i \notin DOMAIN passwd /\ passwd'[i] = e /\ i = Len(passwd) + 1
         /\ \A n : getpwnam(n) # NoUid => getpwnam(n)' = getpwnam(n)
<1>1. passwd \in Seq(PwLines)
  BY DEF LoginTypeOK
<1>2. /\ passwd' \in Seq(PwLines)
      /\ DOMAIN passwd = 1..Len(passwd) /\ DOMAIN passwd' = 1..Len(passwd) + 1 /\ Len(passwd) \in Nat
      /\ \A i \in DOMAIN passwd : passwd'[i] = passwd[i]
      /\ passwd'[Len(passwd) + 1] = e
  BY <1>1
<1>3. \A i \in DOMAIN passwd' : \/ i \in DOMAIN passwd /\ passwd'[i] = passwd[i]
                                \/ i \notin DOMAIN passwd /\ passwd'[i] = e /\ i = Len(passwd) + 1
  BY <1>2
<1>4. ASSUME NEW n, getpwnam(n) # NoUid PROVE getpwnam(n)' = getpwnam(n)
  <2> DEFINE I == {i \in DOMAIN passwd : passwd[i].name = n}
             J == {i \in DOMAIN passwd' : passwd'[i].name = n}
  <2>1. I # {} /\ Min(I) \in I /\ (\A i \in I : Min(I) <= i) /\ getpwnam(n) = passwd[Min(I)].uid
    BY <1>4, Getpwnam
  <2>2. J \in SUBSET Nat /\ Min(I) \in J
    BY <1>2, <2>1
  <2>3. Min(J) \in J /\ \A i \in J : Min(J) <= i
    BY <2>2, MinIsIn
  <2> DEFINE a == Min(I)
             b == Min(J)
  <2> HIDE DEF a, b
  <2>4. a \in I /\ b \in J /\ (\A i \in I : a <= i) /\ (\A i \in J : b <= i) /\ a \in J
    BY <2>1, <2>2, <2>3 DEF a, b
  <2>5. a \in 1..Len(passwd) /\ b \in 1..Len(passwd) + 1 /\ b <= a
    BY <1>2, <2>4
  <2>6. b \in I
    <3>1. b \in DOMAIN passwd
      BY <1>2, <2>5
    <3> QED BY <1>2, <2>4, <3>1
  <2>7. a = b
    BY <2>4, <2>5, <2>6
  <2>8. getpwnam(n)' = passwd'[b].uid
    BY <2>2 DEF getpwnam, b
  <2> QED BY <1>2, <2>1, <2>4, <2>7, <2>8 DEF a
<1> QED BY <1>2, <1>3, <1>4

\* The file as it is at first has the known accounts.
LEMMA FirstLines ==
  ASSUME LoginInit
  PROVE  passwd \in Seq(PwLines) /\ \A i \in DOMAIN passwd : passwd[i].by = "admin"
<1> DEFINE line == [n \in DOMAIN Known |-> [name |-> n, uid |-> Known[n], by |-> "admin"]]
           T == {[name |-> n, uid |-> Known[n], by |-> "admin"] : n \in DOMAIN Known}
<1>1. line \in Surjection(DOMAIN Known, T)
  BY DEF Surjection
<1>2. IsFiniteSet(T)
  <2> HIDE DEF line, T
  <2> QED BY <1>1, FS_Surjection, LoginConstants
<1>3. T \subseteq PwLines /\ \A e \in T : e.by = "admin"
  BY LoginConstants DEF PwLines, Names
<1>4. passwd = SetToSeq(T)
  BY DEF LoginInit
<1> HIDE DEF T
<1>5. Cardinality(T) \in Nat /\ \E f \in [1..Cardinality(T) -> T] : IsInjective(f)
  <2>1. Cardinality(T) \in Nat /\ ExistsBijection(1..Cardinality(T), T)
    BY <1>2, FS_CardinalityType
  <2>2. PICK f : f \in Bijection(1..Cardinality(T), T)
    BY <2>1 DEF ExistsBijection
  <2>3. f \in [1..Cardinality(T) -> T] /\ IsInjective(f)
    BY <2>2 DEF Bijection, Injection, IsInjective
  <2> QED BY <2>1, <2>3
<1>6. passwd \in [1..Cardinality(T) -> T]
  BY <1>4, <1>5 DEF SetToSeq
<1>7. passwd \in Seq(T)
  BY <1>5, <1>6
<1> QED BY <1>3, <1>6, <1>7

-----------------------------------------------------------------------------
(* The steps *)

\* All accounts are the administrator's, and nobody is let in yet.
LEMMA LoginStart == LoginInit => LoginInv
<1> SUFFICES ASSUME LoginInit PROVE LoginInv
  OBVIOUS
<1>1. passwd \in Seq(PwLines) /\ \A i \in DOMAIN passwd : passwd[i].by = "admin"
  BY FirstLines
<1>2. assoc = {} /\ stage = [p \in Callers |-> "lookup"] /\ uid = [p \in Callers |-> NoUid]
  BY DEF LoginInit
<1>3. LoginTypeOK
  BY <1>1, <1>2 DEF LoginTypeOK, NoUid
<1>4. OwnUids
  BY <1>1 DEF OwnUids
<1>5. LockHeld /\ StillFree /\ HasAccount /\ EntriesOfSessions /\ SessionsHaveCalls
  BY <1>2 DEF LockHeld, StillFree, HasAccount, EntriesOfSessions, SessionsHaveCalls, InSession, AtLock, Admitted
<1> QED BY <1>3, <1>4, <1>5 DEF LoginInv

\* One caller goes from a stage that is not after its login to another such
\* one, with the same lines: what the others have stays.
LEMMA Aside ==
  ASSUME LoginInv, NEW p \in Callers, NEW l, NEW u \in Int,
         stage' = [stage EXCEPT ![p] = l], uid' = [uid EXCEPT ![p] = u],
         stage[p] \notin Admitted, l \in AtLock \cup Admitted \cup {"lookup", "new_user", "again", "denied"},
         l \notin {"associate", "session", "ended"},
         UNCHANGED <<passwd, assoc>>,
         l \in AtLock => flock' = p,
         \A q \in Callers \ {p} : stage[q] \in AtLock => flock' = flock,
         l = "fclose" => u \notin Taken,
         l \in Admitted => u \in {getpwnam(Name[p]), getpwnam(Guest)} \ {NoUid}
  PROVE  LoginInv'
<1>0. /\ stage' \in [Callers -> AtLock \cup Admitted \cup {"lookup", "new_user", "again", "denied"}]
      /\ stage \in [Callers -> AtLock \cup Admitted \cup {"lookup", "new_user", "again", "denied"}]
      /\ uid' \in [Callers -> Int] /\ uid \in [Callers -> Int]
      /\ stage'[p] = l /\ uid'[p] = u
      /\ \A q \in Callers \ {p} : stage'[q] = stage[q] /\ uid'[q] = uid[q]
  BY DEF LoginInv, LoginTypeOK
<1>1. LoginTypeOK' /\ OwnUids'
  BY <1>0 DEF LoginInv, LoginTypeOK, OwnUids
<1>2. LockHeld'
  BY <1>0 DEF LoginInv, LockHeld
<1>3. StillFree'
  BY <1>0 DEF LoginInv, StillFree, Taken
<1>4. HasAccount'
  <2>1. \A n : getpwnam(n)' = getpwnam(n)
    BY DEF getpwnam
  <2> QED BY <1>0, <2>1 DEF LoginInv, HasAccount, Accounted
<1>5. \A q \in Callers : InSession(q)' <=> q # p /\ InSession(q)
  BY <1>0 DEF InSession
<1>6. ~InSession(p) /\ stage[p] # "associate"
  BY DEF InSession, Admitted
<1>7. EntriesOfSessions'
  <2>1. \A a \in assoc : a.call \in Callers
    BY DEF LoginInv, LoginTypeOK
  <2> QED BY <1>0, <1>5, <1>6, <2>1 DEF LoginInv, EntriesOfSessions
<1>8. SessionsHaveCalls'
  BY <1>0, <1>5, <1>6 DEF LoginInv, SessionsHaveCalls, HasCall
<1> QED BY <1>1, <1>2, <1>3, <1>4, <1>7, <1>8 DEF LoginInv

\* A line is added, by the administrator or by the one who holds the lock.
LEMMA OneMoreLine ==
  ASSUME LoginInv, NEW e \in PwLines, passwd' = Append(passwd, e), UNCHANGED <<uid, assoc, flock>>,
         \/ stage' = stage
         \/ \E p \in Callers : stage[p] \in {"fclose", "useradd"} /\ stage' = [stage EXCEPT ![p] = "profile"],
         e.by = "admin" \/ \A i \in DOMAIN passwd : passwd[i].uid = e.uid => passwd[i].by = "admin",
         \A q \in Callers : stage'[q] = "fclose" => e.by = "admin"
  PROVE  LoginInv'
<1>0. LoginTypeOK /\ OwnUids /\ LockHeld /\ StillFree /\ HasAccount /\ EntriesOfSessions /\ SessionsHaveCalls
  BY DEF LoginInv
<1>1. /\ passwd' \in Seq(PwLines)
      /\ \A i \in DOMAIN passwd' : \/ i \in DOMAIN passwd /\ passwd'[i] = passwd[i]
                                   \/ i \notin DOMAIN passwd /\ passwd'[i] = e /\ i = Len(passwd) + 1
      /\ \A n : getpwnam(n) # NoUid => getpwnam(n)' = getpwnam(n)
  BY <1>0, LinesStay
<1>2. /\ stage' \in [Callers -> AtLock \cup Admitted \cup {"lookup", "new_user", "again", "denied"}]
      /\ \A q \in Callers : \/ stage'[q] = stage[q]
                            \/ stage[q] \in {"fclose", "useradd"} /\ stage'[q] = "profile"
  BY <1>0 DEF LoginTypeOK, AtLock
<1>3. LoginTypeOK'
  BY <1>0, <1>1, <1>2 DEF LoginTypeOK
<1>4. OwnUids'
  <2> SUFFICES ASSUME NEW i \in DOMAIN passwd', NEW k \in DOMAIN passwd', i # k,
                      passwd'[i].uid = passwd'[k].uid
               PROVE  "admin" \in {passwd'[i].by, passwd'[k].by}
    BY DEF OwnUids
  <2>1. CASE i \in DOMAIN passwd /\ k \in DOMAIN passwd
    BY <1>0, <1>1, <2>1 DEF OwnUids
  <2>2. CASE i \notin DOMAIN passwd
    BY <1>1, <2>2
  <2>3. CASE k \notin DOMAIN passwd
    BY <1>1, <2>3
  <2> QED BY <2>1, <2>2, <2>3
<1>5. LockHeld'
  BY <1>0, <1>2 DEF LockHeld, AtLock
<1>6. StillFree'
  <2> SUFFICES ASSUME NEW q \in Callers, stage'[q] = "fclose", NEW i \in DOMAIN passwd', passwd'[i].uid = uid[q]
               PROVE  passwd'[i].by = "admin"
    BY DEF StillFree
  <2>1. stage[q] = "fclose"
    BY <1>2
  <2> QED BY <1>0, <1>1, <2>1 DEF StillFree
<1>7. HasAccount'
  <2> SUFFICES ASSUME NEW q \in Callers, stage'[q] \in Admitted PROVE Accounted(q)'
    BY DEF HasAccount
  <2>1. Accounted(q)
    BY <1>0, <1>2 DEF HasAccount, Admitted
  <2> QED BY <1>1, <2>1 DEF Accounted
<1>8. \A q \in Callers : InSession(q)' <=> InSession(q)
  BY <1>2 DEF InSession
<1>9. EntriesOfSessions'
  <2>1. \A a \in assoc : a.call \in Callers
    BY <1>0 DEF LoginTypeOK
  <2> QED BY <1>0, <1>8, <2>1 DEF EntriesOfSessions
<1>10. SessionsHaveCalls'
  <2>1. \A q \in Callers : stage[q] = "associate" => stage'[q] = "associate"
    BY <1>2
  <2> QED BY <1>0, <1>8, <2>1 DEF SessionsHaveCalls, HasCall
<1> QED BY <1>3, <1>4, <1>5, <1>6, <1>7, <1>9, <1>10 DEF LoginInv

\* A caller that has been let in goes on.
LEMMA GoesOn ==
  ASSUME LoginInv, NEW p \in Callers, NEW l, l \in Admitted \cup {"denied"},
         stage' = [stage EXCEPT ![p] = l], stage[p] \in Admitted,
         passwd' = passwd, uid' = uid, flock' = flock,
         \A a \in assoc' : a \in assoc \/ (a = [uid |-> uid[p], call |-> p] /\ l = "session"),
         \A a \in assoc : a \in assoc' \/ (a.uid = uid[p] /\ l = "associate"),
         InSession(p) => l \in {"session", "ended"},
         l \in {"session", "ended"} => InSession(p) \/ ~Associate \/ \E a \in assoc' : a.uid = uid[p],
         stage[p] = "associate" => \E a \in assoc' : a.uid = uid[p]
  PROVE  LoginInv'
<1>0. LoginTypeOK /\ OwnUids /\ LockHeld /\ StillFree /\ HasAccount /\ EntriesOfSessions /\ SessionsHaveCalls
  BY DEF LoginInv
<1>1. /\ stage' \in [Callers -> AtLock \cup Admitted \cup {"lookup", "new_user", "again", "denied"}]
      /\ stage'[p] = l /\ \A q \in Callers \ {p} : stage'[q] = stage[q]
      /\ l \notin AtLock
  BY <1>0 DEF LoginTypeOK, AtLock, Admitted
<1>2. LoginTypeOK'
  <2>1. uid[p] \in Int
    BY <1>0 DEF LoginTypeOK
  <2>2. assoc' \subseteq [uid : Int, call : Callers]
    BY <1>0, <2>1 DEF LoginTypeOK
  <2> QED BY <1>0, <1>1, <2>2 DEF LoginTypeOK
<1>3. OwnUids' /\ LockHeld' /\ StillFree'
  BY <1>0, <1>1 DEF OwnUids, LockHeld, StillFree, AtLock
<1>4. HasAccount'
  <2>1. \A n : getpwnam(n)' = getpwnam(n)
    BY DEF getpwnam
  <2> QED BY <1>0, <1>1, <2>1 DEF HasAccount, Accounted
<1>5. \A q \in Callers : InSession(q) => InSession(q)'
  BY <1>1 DEF InSession
<1>6. EntriesOfSessions'
  <2> SUFFICES ASSUME NEW a \in assoc' PROVE InSession(a.call)' /\ uid[a.call] = a.uid
    BY DEF EntriesOfSessions
  <2>1. CASE a \in assoc
    BY <1>0, <1>5, <2>1 DEF EntriesOfSessions, LoginTypeOK
  <2>2. CASE a = [uid |-> uid[p], call |-> p] /\ l = "session"
    BY <1>1, <2>2 DEF InSession
  <2> QED BY <2>1, <2>2
<1>7. SessionsHaveCalls'
  <2> SUFFICES ASSUME Associate, NEW q \in Callers, InSession(q)' PROVE HasCall(q)'
    BY DEF SessionsHaveCalls
  <2>1. CASE ~InSession(q)
    <3>1. q = p /\ l \in {"session", "ended"}
      BY <1>1, <2>1 DEF InSession
    <3> QED BY <2>1, <3>1 DEF HasCall
  <2>2. CASE InSession(q)
    <3>1. HasCall(q)
      BY <1>0, <2>2 DEF SessionsHaveCalls
    <3>2. CASE \E a \in assoc : a.uid = uid[q]
      <4>1. PICK a \in assoc : a.uid = uid[q]
        BY <3>2
      <4>2. a \in assoc' \/ (uid[p] = uid[q] /\ stage'[p] = "associate")
        BY <1>1, <4>1
      <4> QED BY <4>1, <4>2 DEF HasCall
    <3>3. CASE \E r \in Callers : uid[r] = uid[q] /\ stage[r] = "associate"
      <4>1. PICK r \in Callers : uid[r] = uid[q] /\ stage[r] = "associate"
        BY <3>3
      <4>2. stage'[r] = "associate" \/ \E a \in assoc' : a.uid = uid[r]
        BY <1>1, <4>1
      <4> QED BY <4>1, <4>2 DEF HasCall
    <3> QED BY <3>1, <3>2, <3>3 DEF HasCall
  <2> QED BY <2>1, <2>2
<1> QED BY <1>2, <1>3, <1>4, <1>6, <1>7 DEF LoginInv

\* At most one caller is at the lock.
LEMMA OneAtLock ==
  ASSUME LoginInv, NEW p \in Callers, stage[p] \in AtLock
  PROVE  flock = p /\ \A q \in Callers : stage[q] \in AtLock => q = p
BY DEF LoginInv, LockHeld

\* The steps of a caller before it is let in that leave the lines alone.
LEMMA SetUpStep ==
  ASSUME LoginInv, NEW p \in Callers,
         Lookup(p) \/ Lock(p) \/ FindUid(p) \/ CheckUid(p) \/ CopyProfile(p) \/ Unlock(p) \/ LookupAgain(p)
  PROVE  LoginInv'
<1> USE DEF Goto
<1>1. /\ uid \in [Callers -> Int] /\ uid = [uid EXCEPT ![p] = uid[p]]
      /\ \A n : getpwnam(n) \in Int
  BY Getpwnam DEF LoginInv, LoginTypeOK
<1>2. CASE Lookup(p)
  <2> DEFINE u == IF getpwnam(Name[p]) # NoUid THEN getpwnam(Name[p])
                  ELSE IF p \notin Changed /\ ~AddUser /\ Guest # NoName THEN getpwnam(Guest)
                  ELSE NoUid
             l == IF u # NoUid THEN (IF u = 0 /\ ~RootLogin THEN "denied" ELSE "password")
                  ELSE IF p \in Changed \/ ~AddUser THEN "denied" ELSE "new_user"
  <2>1. u \in Int /\ (u # NoUid => u \in {getpwnam(Name[p]), getpwnam(Guest)})
    BY <1>1 DEF NoUid
  <2>2. /\ uid' = [uid EXCEPT ![p] = u] /\ stage[p] = "lookup" /\ uid'[p] = u
        /\ UNCHANGED <<passwd, flock, assoc>>
    BY <1>1, <1>2 DEF Lookup
  <2>3. stage' = [stage EXCEPT ![p] = l]
    BY <1>2, <2>2 DEF Lookup
  <2>4. l \in {"denied", "password", "new_user"} /\ (l = "password" => u # NoUid)
    OBVIOUS
  <2> HIDE DEF u, l
  <2> QED BY <2>1, <2>2, <2>3, <2>4, Aside DEF Admitted, AtLock
<1>3. CASE Lock(p)
  <2>1. /\ stage' = [stage EXCEPT ![p] = "search"] /\ uid' = [uid EXCEPT ![p] = uid[p]]
        /\ stage[p] = "new_user" /\ flock = NoName /\ flock' = p /\ UNCHANGED <<passwd, assoc>>
    BY <1>1, <1>3 DEF Lock, LockIsFree
  <2>2. \A q \in Callers : stage[q] \notin AtLock
    BY <2>1, OneAtLock, LoginConstants
  <2> QED BY <1>1, <2>1, <2>2, Aside DEF Admitted, AtLock
<1>4. CASE FindUid(p)
  <2> DEFINE u == Min(((start_uid..MaxUid) \ Taken) \cup {MaxUid + 1})
  <2>1. u \in Int
    <3> DEFINE T == ((start_uid..MaxUid) \ Taken) \cup {MaxUid + 1}
    <3>1. T \in SUBSET Nat /\ T # {}
      BY LoginConstants
    <3> HIDE DEF T
    <3>2. Min(T) \in T
      BY <3>1, MinIsIn
    <3>3. Min(T) \in Nat
      BY <3>1, <3>2, Zenon
    <3> QED BY <3>3 DEF T
  <2>2. /\ stage[p] = "search" /\ UNCHANGED <<passwd, flock, assoc>>
        /\ \E v \in Int, l \in {"unlock", "useradd", "putpwent"} :
             stage' = [stage EXCEPT ![p] = l] /\ uid' = [uid EXCEPT ![p] = v]
    <3> HIDE DEF u
    <3>1. /\ stage[p] = "search" /\ UNCHANGED <<passwd, flock, assoc>>
          /\ \/ uid' = [uid EXCEPT ![p] = u] /\ stage' = [stage EXCEPT ![p] = IF UserAdd THEN "useradd" ELSE "putpwent"]
             \/ stage' = [stage EXCEPT ![p] = "unlock"] /\ UNCHANGED uid
      BY <1>4 DEF FindUid, u
    <3>2. uid[p] \in Int
      BY <1>1
    <3> QED BY <1>1, <2>1, <3>1, <3>2
  <2>3. PICK v \in Int, l \in {"unlock", "useradd", "putpwent"} :
             stage' = [stage EXCEPT ![p] = l] /\ uid' = [uid EXCEPT ![p] = v]
    BY <2>2
  <2>4. flock = p
    BY <2>2, OneAtLock DEF AtLock
  <2> QED BY <2>2, <2>3, <2>4, Aside DEF Admitted, AtLock
<1>5. CASE CheckUid(p)
  <2> DEFINE l == IF uid[p] \in Taken THEN "search" ELSE "fclose"
  <2>1. /\ stage[p] = "putpwent" /\ uid' = [uid EXCEPT ![p] = uid[p]] /\ stage' = [stage EXCEPT ![p] = l]
        /\ UNCHANGED <<passwd, flock, assoc>>
    BY <1>1, <1>5 DEF CheckUid
  <2>2. flock = p
    BY <2>1, OneAtLock DEF AtLock
  <2>3. l \in {"search", "fclose"} /\ (l = "fclose" => uid[p] \notin Taken)
    OBVIOUS
  <2> HIDE DEF l
  <2> QED BY <1>1, <2>1, <2>2, <2>3, Aside DEF Admitted, AtLock
<1>6. CASE CopyProfile(p)
  <2>1. /\ stage[p] = "profile" /\ uid' = [uid EXCEPT ![p] = uid[p]] /\ stage' = [stage EXCEPT ![p] = "unlock"]
        /\ UNCHANGED <<passwd, flock, assoc>>
    BY <1>1, <1>6 DEF CopyProfile
  <2>2. flock = p
    BY <2>1, OneAtLock DEF AtLock
  <2> QED BY <1>1, <2>1, <2>2, Aside DEF Admitted, AtLock
<1>7. CASE Unlock(p)
  <2>1. /\ stage[p] = "unlock" /\ uid' = [uid EXCEPT ![p] = uid[p]] /\ stage' = [stage EXCEPT ![p] = "again"]
        /\ UNCHANGED <<passwd, assoc>>
    BY <1>1, <1>7 DEF Unlock
  <2>2. \A q \in Callers \ {p} : stage[q] \notin AtLock
    BY <2>1, OneAtLock DEF AtLock
  <2> QED BY <1>1, <2>1, <2>2, Aside DEF Admitted, AtLock
<1>8. CASE LookupAgain(p)
  <2> DEFINE u == getpwnam(Name[p])
             l == IF u # NoUid THEN "password" ELSE "denied"
  <2>1. uid' = [uid EXCEPT ![p] = u] /\ stage[p] = "again" /\ uid'[p] = u /\ UNCHANGED <<passwd, flock, assoc>>
    BY <1>1, <1>8 DEF LookupAgain
  <2>2. stage' = [stage EXCEPT ![p] = l]
    BY <1>8, <2>1 DEF LookupAgain
  <2>3. l \in {"denied", "password"} /\ (l = "password" => u # NoUid) /\ u = getpwnam(Name[p]) /\ u \in Int
    BY <1>1
  <2> HIDE DEF u, l
  <2> QED BY <2>1, <2>2, <2>3, Aside DEF Admitted, AtLock
<1> QED BY <1>2, <1>3, <1>4, <1>5, <1>6, <1>7, <1>8

\* The account is made, or useradd makes it or refuses.
LEMMA LineStep ==
  ASSUME LoginInv, NEW p \in Callers, PutPw(p) \/ ForkUseradd(p)
  PROVE  LoginInv'
<1> USE DEF Goto
<1>1. /\ stage \in [Callers -> AtLock \cup Admitted \cup {"lookup", "new_user", "again", "denied"}]
      /\ uid \in [Callers -> Int]
  BY DEF LoginInv, LoginTypeOK
<1>2. PwLine(p, p) \in PwLines /\ PwLine(p, p).uid = uid[p]
  BY <1>1 DEF PwLine, PwLines, Names
<1>3. ASSUME stage[p] \in AtLock, stage' = [stage EXCEPT ![p] = "profile"]
      PROVE  flock = p /\ \A q \in Callers : stage'[q] # "fclose"
  BY <1>1, <1>3, OneAtLock DEF AtLock
<1>4. CASE PutPw(p)
  <2>1. /\ stage[p] = "fclose" /\ passwd' = Append(passwd, PwLine(p, p))
        /\ stage' = [stage EXCEPT ![p] = "profile"] /\ UNCHANGED <<uid, assoc, flock>>
    BY <1>4 DEF PutPw
  <2>2. \A i \in DOMAIN passwd : passwd[i].uid = PwLine(p, p).uid => passwd[i].by = "admin"
    BY <1>2, <2>1 DEF LoginInv, StillFree
  <2>3. \A q \in Callers : stage'[q] # "fclose"
    BY <1>3, <2>1 DEF AtLock
  <2> QED BY <1>2, <2>1, <2>2, <2>3, OneMoreLine
<1>5. CASE ForkUseradd(p)
  <2>1. /\ stage[p] = "useradd" /\ stage' = [stage EXCEPT ![p] = "profile"] /\ UNCHANGED <<uid, assoc, flock>>
        /\ \/ passwd' = passwd
           \/ uid[p] \notin Taken /\ passwd' = Append(passwd, PwLine(p, p))
    BY <1>5 DEF ForkUseradd
  <2>2. flock = p /\ \A q \in Callers : stage'[q] # "fclose"
    BY <1>3, <2>1 DEF AtLock
  <2>3. CASE passwd' = passwd
    <3>1. uid' = [uid EXCEPT ![p] = uid[p]] /\ uid[p] \in Int
      BY <1>1, <2>1
    <3> QED BY <2>1, <2>2, <2>3, <3>1, Aside DEF Admitted, AtLock
  <2>4. CASE uid[p] \notin Taken /\ passwd' = Append(passwd, PwLine(p, p))
    <3>1. \A i \in DOMAIN passwd : passwd[i].uid # PwLine(p, p).uid
      BY <1>2, <2>4 DEF Taken
    <3> QED BY <1>2, <2>1, <2>2, <2>4, <3>1, OneMoreLine
  <2> QED BY <2>1, <2>3, <2>4
<1> QED BY <1>4, <1>5

\* The line of the administrator may have a uid somebody else is about to take.
LEMMA AdminStep ==
  ASSUME LoginInv, AdminAdds
  PROVE  LoginInv'
<1>1. PICK u \in start_uid..MaxUid : passwd' = Append(passwd, [name |-> NoName, uid |-> u, by |-> "admin"])
  BY DEF AdminAdds
<1>2. UNCHANGED <<uid, assoc, flock, stage>>
  BY DEF AdminAdds
<1>3. [name |-> NoName, uid |-> u, by |-> "admin"] \in PwLines
  BY <1>1, LoginConstants DEF PwLines
<1> QED BY <1>1, <1>2, <1>3, OneMoreLine

\* The steps of a caller that has been let in.
LEMMA SessionStep ==
  ASSUME LoginInv, NEW p \in Callers, Password(p) \/ DelUid(p) \/ AddUid(p) \/ Ends(p)
  PROVE  LoginInv'
<1> USE DEF Goto
<1>1. \A a \in assoc : a.uid \in Int /\ a.call \in Callers
  BY DEF LoginInv, LoginTypeOK
<1>2. CASE Password(p)
  <2>1. /\ stage[p] = "password" /\ UNCHANGED <<passwd, flock, assoc, uid>>
        /\ \E l \in {"password", "denied", "delete", "session"} :
             stage' = [stage EXCEPT ![p] = l] /\ (l = "session" => ~Associate)
    BY <1>2 DEF Password
  <2>2. PICK l \in {"password", "denied", "delete", "session"} :
             stage' = [stage EXCEPT ![p] = l] /\ (l = "session" => ~Associate)
    BY <2>1
  <2>3. stage[p] \in Admitted /\ l \in Admitted \cup {"denied"} /\ ~InSession(p) /\ l # "ended"
    BY <2>1, <2>2 DEF InSession, Admitted
  <2>4. /\ \A a \in assoc' : a \in assoc
        /\ \A a \in assoc : a \in assoc'
    BY <2>1
  <2> QED BY <2>1, <2>2, <2>3, <2>4, GoesOn
<1>3. CASE DelUid(p)
  <2>1. /\ stage[p] = "delete" /\ stage' = [stage EXCEPT ![p] = "associate"]
        /\ UNCHANGED <<passwd, flock, uid>> /\ assoc' = {a \in assoc : a.uid # uid[p]}
    BY <1>3 DEF DelUid
  <2>2. ~InSession(p)
    BY <2>1 DEF InSession
  <2> QED BY <2>1, <2>2, GoesOn DEF Admitted
<1>4. CASE AddUid(p)
  <2>1. /\ stage[p] = "associate" /\ stage' = [stage EXCEPT ![p] = "session"]
        /\ UNCHANGED <<passwd, flock, uid>>
        /\ \/ assoc' = assoc /\ \E a \in assoc : a.uid = uid[p]
           \/ assoc' = assoc \cup {[uid |-> uid[p], call |-> p]}
    BY <1>4 DEF AddUid
  <2>2. /\ \A a \in assoc' : a \in assoc \/ a = [uid |-> uid[p], call |-> p]
        /\ \A a \in assoc : a \in assoc'
    BY <2>1
  <2>3. \E a \in assoc' : a.uid = uid[p]
    <3>1. [uid |-> uid[p], call |-> p].uid = uid[p]
      OBVIOUS
    <3> QED BY <2>1, <3>1, Zenon
  <2> QED BY <2>1, <2>2, <2>3, GoesOn DEF Admitted
<1>5. CASE Ends(p)
  <2>1. /\ stage[p] = "session" /\ stage' = [stage EXCEPT ![p] = "ended"]
        /\ UNCHANGED <<passwd, flock, uid, assoc>>
    BY <1>5 DEF Ends
  <2>2. InSession(p)
    BY <2>1 DEF InSession
  <2> QED BY <2>1, <2>2, GoesOn DEF Admitted
<1> QED BY <1>2, <1>3, <1>4, <1>5

\* What is kept is enough.
LEMMA LoginRightFollows == LoginInv => LoginRight
<1> SUFFICES ASSUME LoginInv PROVE LoginRight
  OBVIOUS
<1>1. OwnUids
  BY DEF LoginInv
<1>2. \A p \in Callers : InSession(p) => Accounted(p)
  BY DEF LoginInv, HasAccount, InSession, Admitted
<1>3. ASSUME NEW p \in Callers, Associate, InSession(p), \A q \in Callers : uid[q] = uid[p] => stage[q] # "associate"
      PROVE  \E a \in assoc : a.uid = uid[p] /\ uid[a.call] = uid[p]
  <2>1. PICK a \in assoc : a.uid = uid[p]
    BY <1>3 DEF LoginInv, SessionsHaveCalls, HasCall
  <2> QED BY <2>1 DEF LoginInv, EntriesOfSessions
<1> QED BY <1>1, <1>2, <1>3 DEF LoginRight

\* axspawn.c:1058, 1562, 1693: however many callers come at the same time, with
\* whatever names, and whatever accounts there are or are added meanwhile, no
\* two accounts that axspawn makes have one uid, each session has the account
\* of its call, and the callsign that the kernel has for its uid is that of a
\* session with this uid.
THEOREM LoginsRight == LoginSpec => []LoginRight
<1>1. LoginInit => LoginInv
  BY LoginStart
<1>2. LoginInv /\ [LoginNext]_login_vars => LoginInv'
  <2> SUFFICES ASSUME LoginInv, [LoginNext]_login_vars PROVE LoginInv'
    OBVIOUS
  <2>1. ASSUME NEW p \in Callers,
               Lookup(p) \/ Lock(p) \/ FindUid(p) \/ CheckUid(p) \/ CopyProfile(p) \/ Unlock(p) \/ LookupAgain(p)
        PROVE  LoginInv'
    BY <2>1, SetUpStep
  <2>2. ASSUME NEW p \in Callers, PutPw(p) \/ ForkUseradd(p) PROVE LoginInv'
    BY <2>2, LineStep
  <2>3. ASSUME NEW p \in Callers, Password(p) \/ DelUid(p) \/ AddUid(p) \/ Ends(p) PROVE LoginInv'
    BY <2>3, SessionStep
  <2>4. CASE AdminAdds
    BY <2>4, AdminStep
  <2>5. CASE UNCHANGED login_vars
    <3>1. UNCHANGED <<passwd, flock, assoc, stage, uid>>
      BY <2>5 DEF login_vars
    <3>2. LoginTypeOK' /\ OwnUids' /\ LockHeld' /\ StillFree'
      BY <3>1 DEF LoginInv, LoginTypeOK, OwnUids, LockHeld, StillFree
    <3>3. HasAccount'
      BY <3>1 DEF LoginInv, HasAccount, Accounted, getpwnam
    <3>4. EntriesOfSessions' /\ SessionsHaveCalls'
      BY <3>1 DEF LoginInv, EntriesOfSessions, InSession, SessionsHaveCalls, HasCall
    <3> QED BY <3>2, <3>3, <3>4 DEF LoginInv
  <2> QED BY <2>1, <2>2, <2>3, <2>4, <2>5 DEF LoginNext
<1>3. LoginInv => LoginRight
  BY LoginRightFollows
<1> QED BY <1>1, <1>2, <1>3, PTL DEF LoginSpec
=============================================================================
