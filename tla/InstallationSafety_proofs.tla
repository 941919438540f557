---------------------- MODULE InstallationSafety_proofs ----------------------
(***************************************************************************)
(* InstallationInv is inductive, and what follows from it.                  *)
(***************************************************************************)
EXTENDS InstallationSafety, TLAPS

-----------------------------------------------------------------------------
(* What rotation and recording do to the audit log, for every capacity and  *)
(* every number of backups.                                                 *)

In(l, n) == \E i \in Files : n \in l[i]

\* The files of l hold the last so many of r records, in order.
Sound(l, r) ==
    /\ l \in [Files -> SUBSET Nat] /\ r \in Nat
    /\ \A i, j \in Files : i < j => \A m \in l[i], n \in l[j] : n < m
    /\ \A n \in Nat : In(l, n) => n <= r /\ \A m \in n..r : In(l, m)
    /\ r = 0 \/ In(l, r)

\* What a rotation leaves at every step of its own.
LEMMA ShiftedIs ==
    ASSUME NEW l \in [Files -> SUBSET Nat], NEW k \in Files
    PROVE  /\ Shifted(l, k) \in [Files -> SUBSET Nat]
           /\ \A i \in Files : i < k => Shifted(l, k)[i] = l[i]
           /\ Shifted(l, k)[k] = {}
           /\ \A i \in Files : i > k => i - 1 \in Files /\ Shifted(l, k)[i] = l[i - 1]
<1>1. \A i \in Files : i > k => i - 1 \in Files
    BY AuditAssumption DEF Files
<1> QED BY <1>1, AuditAssumption DEF Shifted, Files

\* A rotation that stops anywhere leaves the log sound, for it only drops the oldest
\* file and there is a newer record.
LEMMA ShiftedSound ==
    ASSUME NEW l, NEW r, Sound(l, r), l[0] # {}, NEW k \in Files
    PROVE  Sound(Shifted(l, k), r)
<1> DEFINE s == Shifted(l, k)
<1>0. l \in [Files -> SUBSET Nat] /\ r \in Nat /\ 0 \in Files /\ Backups \in Files /\ Backups > 0
    BY AuditAssumption DEF Sound, Files
<1>1. /\ s \in [Files -> SUBSET Nat]
      /\ \A i \in Files : i < k => s[i] = l[i]
      /\ s[k] = {}
      /\ \A i \in Files : i > k => i - 1 \in Files /\ s[i] = l[i - 1]
    BY <1>0, ShiftedIs
<1> HIDE DEF s
<1>2. \A i \in Files : \A n \in s[i] : \/ i < k /\ n \in l[i]
                                       \/ i > k /\ i - 1 \in Files /\ n \in l[i - 1]
    BY <1>1 DEF Files
<1>3. \A i, j \in Files : i < j => \A m \in s[i], n \in s[j] : n < m
  <2> SUFFICES ASSUME NEW i \in Files, NEW j \in Files, i < j, NEW m \in s[i], NEW n \in s[j]
               PROVE  n < m
      OBVIOUS
  <2>1. PICK a \in Files : m \in l[a] /\ ((a = i /\ i < k) \/ (a = i - 1 /\ i > k))
      BY <1>2
  <2>2. PICK b \in Files : n \in l[b] /\ ((b = j /\ j < k) \/ (b = j - 1 /\ j > k))
      BY <1>2
  <2>3. a < b
      BY <2>1, <2>2, AuditAssumption DEF Files
  <2> QED BY <2>1, <2>2, <2>3 DEF Sound
<1>4. \A a \in Files : a < Backups => l[a] \subseteq UNION {s[i] : i \in Files}
  <2> SUFFICES ASSUME NEW a \in Files, a < Backups, NEW n \in l[a]
               PROVE  \E i \in Files : n \in s[i]
      OBVIOUS
  <2>1. CASE a < k
      BY <2>1, <1>1
  <2>2. CASE a >= k
    <3>1. a + 1 \in Files /\ a + 1 > k /\ (a + 1) - 1 = a
        BY <2>2, AuditAssumption DEF Files
    <3>2. s[a + 1] = l[a]
        BY <3>1, <1>1
    <3> QED BY <3>1, <3>2
  <2> QED BY <2>1, <2>2, AuditAssumption DEF Files
<1>5. \A n \in Nat : In(l, n) => In(s, n) \/ n \in l[Backups]
  <2> SUFFICES ASSUME NEW n \in Nat, NEW a \in Files, n \in l[a]
               PROVE  In(s, n) \/ n \in l[Backups]
      BY DEF In
  <2>1. a = Backups \/ a < Backups
      BY AuditAssumption DEF Files
  <2> QED BY <2>1, <1>4 DEF In
<1>6. \A n \in Nat : In(s, n) => \E a \in Files : a < Backups /\ n \in l[a]
  <2> SUFFICES ASSUME NEW n \in Nat, NEW i \in Files, n \in s[i]
               PROVE  \E a \in Files : a < Backups /\ n \in l[a]
      BY DEF In
  <2>1. CASE i < k /\ n \in l[i]
      BY <2>1, AuditAssumption DEF Files
  <2>2. CASE i > k /\ i - 1 \in Files /\ n \in l[i - 1]
    <3>1. i - 1 < Backups
        BY <2>2, AuditAssumption DEF Files
    <3> QED BY <2>2, <3>1
  <2> QED BY <1>2, <2>1, <2>2
<1>7. \A n \in Nat : In(s, n) => n <= r /\ \A m \in n..r : In(s, m)
  <2> SUFFICES ASSUME NEW n \in Nat, In(s, n) PROVE n <= r /\ \A m \in n..r : In(s, m)
      OBVIOUS
  <2>1. PICK a \in Files : a < Backups /\ n \in l[a]
      BY <1>6
  <2>2. n <= r /\ \A m \in n..r : In(l, m)
      BY <2>1 DEF Sound, In
  <2>3. ASSUME NEW m \in n..r PROVE m \notin l[Backups]
    <3>1. m \in l[Backups] => m < n
        BY <2>1, <1>0 DEF Sound
    <3> QED BY <3>1, <1>0
  <2>4. \A m \in n..r : m \in Nat
      BY <1>0
  <2> QED BY <2>2, <2>3, <2>4, <1>5
<1>8. r = 0 \/ In(s, r)
  <2> SUFFICES ASSUME r # 0 PROVE In(s, r)
      OBVIOUS
  <2>1. PICK n \in Nat : n \in l[0]
      BY <1>0
  <2>2. n <= r
      BY <2>1, <1>0 DEF Sound, In
  <2>3. r \in l[Backups] => r < n
      BY <2>1, <1>0 DEF Sound
  <2>4. r \notin l[Backups]
      BY <2>2, <2>3, <1>0
  <2>5. In(l, r)
      BY DEF Sound
  <2> QED BY <2>4, <2>5, <1>0, <1>5
<1> QED BY <1>0, <1>1, <1>3, <1>7, <1>8 DEF Sound, s

\* Recording leaves the log sound, whether it rotates it or not.
LEMMA RecordedSound ==
    ASSUME NEW l, NEW r, Sound(l, r)
    PROVE  Sound(Recorded(l, r + 1), r + 1)
<1> DEFINE room == IF Full(l) THEN Shifted(l, 0) ELSE l
           next == [room EXCEPT ![0] = @ \cup {r + 1}]
<1>0. 0 \in Files /\ r \in Nat
    BY AuditAssumption DEF Files, Sound
<1>1. Sound(room, r)
    BY <1>0, ShiftedSound DEF Full
<1>2. Recorded(l, r + 1) = next
    BY DEF Recorded
<1> HIDE DEF room
<1>3. /\ next \in [Files -> SUBSET Nat]
      /\ next[0] = room[0] \cup {r + 1}
      /\ \A i \in Files : i # 0 => next[i] = room[i]
      /\ room \in [Files -> SUBSET Nat]
    BY <1>0, <1>1 DEF Sound
<1> HIDE DEF next
<1>4. \A n \in Nat : In(next, n) <=> In(room, n) \/ n = r + 1
    BY <1>0, <1>3 DEF In
<1>5. \A i, j \in Files : i < j => \A m \in next[i], n \in next[j] : n < m
  <2> SUFFICES ASSUME NEW i \in Files, NEW j \in Files, i < j, NEW m \in next[i], NEW n \in next[j]
               PROVE  n < m
      OBVIOUS
  <2>1. n \in room[j] /\ n \in Nat
      BY <1>3 DEF Files
  <2>2. m \in room[i] \/ m = r + 1
      BY <1>3
  <2>3. n <= r
      BY <2>1, <1>1 DEF Sound, In
  <2> QED BY <2>1, <2>2, <2>3, <1>0, <1>1 DEF Sound
<1>6. \A n \in Nat : In(next, n) => n <= r + 1 /\ \A m \in n..(r + 1) : In(next, m)
  <2> SUFFICES ASSUME NEW n \in Nat, In(next, n)
               PROVE  n <= r + 1 /\ \A m \in n..(r + 1) : In(next, m)
      OBVIOUS
  <2>1. CASE n = r + 1
      BY <2>1, <1>0, <1>4
  <2>2. CASE In(room, n)
    <3>1. n <= r /\ \A m \in n..r : In(room, m)
        BY <2>2, <1>1 DEF Sound
    <3>2. \A m \in n..(r + 1) : m \in Nat /\ (m \in n..r \/ m = r + 1)
        BY <1>0
    <3> QED BY <3>1, <3>2, <1>0, <1>4
  <2> QED BY <2>1, <2>2, <1>4
<1>7. r + 1 \in Nat /\ In(next, r + 1)
    BY <1>0, <1>4
<1> QED BY <1>2, <1>3, <1>5, <1>6, <1>7 DEF Sound

\* So does being killed while recording.
LEMMA InterruptedSound ==
    ASSUME NEW l, NEW r, Sound(l, r), NEW m \in Interrupted(l)
    PROVE  Sound(m, r)
BY ShiftedSound DEF Interrupted, Full

-----------------------------------------------------------------------------
(* The data.                                                                *)

\* What a job is about.
LEMMA JobTypes ==
    /\ None \notin Jobs
    /\ \A job \in Jobs :
        /\ OnUsers(job) => job.who \in Users /\ job.role \in Role
        /\ job.op = "configure" => job.as \in ProjectDefinition /\ ~OnUsers(job)
        /\ job.op \in {"expose", "revoke"} => job.folder \in Folders /\ ~OnUsers(job)
        /\ job.op \in {"use", "list"} => ~OnUsers(job)
        /\ \/ OnUsers(job)
           \/ job.op \in {"use", "list", "expose", "revoke", "configure"}
BY MarksAssumption DEF Jobs, OnUsers, UserTools

LEMMA DefinitionTypes == Definitions \subseteq ProjectDefinition
BY DEF Definitions, ProjectDefinition, Role, Tools

\* What clients and operators ask for are jobs.
LEMMA AskedAreJobs ==
    /\ ServedJobs \subseteq Jobs
    /\ \A u \in Users, op \in {"add", "rotate"} :
        /\ [op |-> op, who |-> u, role |-> "owner"] \in Jobs
        /\ OnUsers([op |-> op, who |-> u, role |-> "owner"])
<1>1. \A op \in UserTools, u \in Users :
        /\ [op |-> op, who |-> u, role |-> "viewer"] \in Jobs
        /\ [op |-> op, who |-> u, role |-> "owner"] \in Jobs
    BY DEF Jobs, Role
<1>2. \A op \in {"expose", "revoke"}, f \in Folders : [op |-> op, folder |-> f] \in Jobs
    BY DEF Jobs
<1>3. \A d \in Definitions : [op |-> "configure", as |-> d] \in Jobs
    BY DefinitionTypes DEF Jobs
<1>4. [op |-> "use", role |-> "editor"] \in Jobs /\ [op |-> "list"] \in Jobs
    BY DEF Jobs
<1>5. ServedJobs \subseteq Jobs
  <2> SUFFICES ASSUME NEW job \in ServedJobs PROVE job \in Jobs
      OBVIOUS
  <2>1. \/ \E op \in UserTools, u \in Users : job = [op |-> op, who |-> u, role |-> "viewer"]
        \/ \E u \in Users : job = [op |-> "set_role", who |-> u, role |-> "owner"]
        \/ \E op \in {"expose", "revoke"}, f \in Folders : job = [op |-> op, folder |-> f]
        \/ \E d \in Definitions : job = [op |-> "configure", as |-> d]
        \/ job \in {[op |-> "use", role |-> "editor"], [op |-> "list"]}
      BY DEF ServedJobs
  <2> QED BY <2>1, <1>1, <1>2, <1>3, <1>4 DEF UserTools
<1>6. \A u \in Users, op \in {"add", "rotate"} :
        /\ [op |-> op, who |-> u, role |-> "owner"] \in Jobs
        /\ OnUsers([op |-> op, who |-> u, role |-> "owner"])
    BY DEF Jobs, OnUsers, UserTools, Role
<1> QED BY <1>5, <1>6

\* Files without a user, or none at all.
LEMMA UsersFacts ==
    /\ NoUsers \in UsersFile /\ ~HasOwner(NoUsers)
    /\ Missing \notin UsersFile /\ Missing \notin ProjectDefinition
    /\ ~HasOwner(Listed(Missing)) /\ Listed(Missing) = NoUsers
    /\ \A file \in UsersFile : Listed(file) = file
BY MarksAssumption DEF NoUsers, UsersFile, HasOwner, EnabledOwners, Listed

\* An operation on the users yields a users file, and never takes the last owner.
LEMMA ChangedFacts ==
    ASSUME NEW job \in Jobs, OnUsers(job), NEW file \in UsersFile, NEW token \in Nat,
           ~Refused(job, file)
    PROVE  /\ Changed(job, file, token) \in UsersFile
           /\ HasOwner(file) => HasOwner(Changed(job, file, token))
           /\ Changed(job, file, token) =
                  [file EXCEPT ![job.who] = Changed(job, file, token)[job.who]]
           /\ job.op = "rotate" => Changed(job, file, token)[job.who] # None
<1> DEFINE text == Changed(job, file, token)
           known == file[job.who]
<1>0. /\ job.who \in Users /\ job.role \in Role
      /\ job.op \in {"add", "remove", "set_role", "rotate"}
    BY JobTypes DEF OnUsers, UserTools
<1>1. known \in UserRecord \cup {None}
    BY <1>0 DEF UsersFile
<1>2. job.op # "add" => known \in UserRecord
    BY <1>0, <1>1 DEF Refused, UserTools
<1>3. /\ DOMAIN text = Users /\ text = [u \in Users |-> text[u]]
      /\ \A u \in Users : u # job.who => text[u] = file[u]
      /\ job.op = "add" => text[job.who] = [role |-> job.role, token |-> token, enabled |-> TRUE]
      /\ job.op = "set_role" => text[job.who] = [known EXCEPT !.role = job.role]
      /\ job.op = "rotate" => text[job.who] = [known EXCEPT !.token = token]
      /\ job.op = "remove" => text[job.who] = None
    BY <1>0 DEF Changed, UsersFile
<1> HIDE DEF text
<1>4. text[job.who] \in UserRecord \cup {None}
  <2>1. CASE job.op = "add"
    <3>1. [role |-> job.role, token |-> token, enabled |-> TRUE] \in UserRecord
        BY <1>0 DEF UserRecord
    <3> QED BY <2>1, <3>1, <1>3
  <2>2. CASE job.op = "set_role"
      BY <2>2, <1>0, <1>2, <1>3 DEF UserRecord
  <2>3. CASE job.op = "rotate"
      BY <2>3, <1>2, <1>3 DEF UserRecord
  <2>4. CASE job.op = "remove"
      BY <2>4, <1>3
  <2> QED BY <2>1, <2>2, <2>3, <2>4, <1>0
<1>5. text \in UsersFile
  <2>1. \A u \in Users : text[u] \in UserRecord \cup {None}
      BY <1>3, <1>4 DEF UsersFile
  <2> QED BY <2>1, <1>3 DEF UsersFile
<1>6. ASSUME HasOwner(file) PROVE HasOwner(text)
  <2>0. PICK u \in Users : file[u] # None /\ file[u].enabled /\ file[u].role = "owner"
      BY <1>6 DEF HasOwner, EnabledOwners
  <2>1. \A v \in Users : text[v] # None /\ text[v].enabled /\ text[v].role = "owner" =>
            HasOwner(text)
      BY DEF HasOwner, EnabledOwners
  <2>2. CASE u # job.who
      BY <2>0, <2>1, <2>2, <1>3
  <2>3. CASE u = job.who
    <3>1. CASE job.op = "add"
        BY <2>0, <2>3, <3>1 DEF Refused, UserTools
    <3>2. CASE job.op = "rotate"
      <4>1. text[u] \in UserRecord /\ text[u].enabled /\ text[u].role = "owner"
          BY <2>0, <2>3, <3>2, <1>2, <1>3 DEF UserRecord
      <4> QED BY <4>1, <2>1, MarksAssumption
    <3>3. CASE job.op = "set_role" /\ job.role = "owner"
      <4>1. text[u] \in UserRecord /\ text[u].enabled /\ text[u].role = "owner"
          BY <2>0, <2>3, <3>3, <1>0, <1>2, <1>3 DEF UserRecord
      <4> QED BY <4>1, <2>1, MarksAssumption
    <3>4. CASE job.op = "remove" \/ (job.op = "set_role" /\ job.role # "owner")
      <4>1. ~LastOwner(file, job.who)
          BY <3>4 DEF Refused, UserTools
      <4>2. PICK v \in Users : v # job.who /\ file[v] # None /\ file[v].enabled
                               /\ file[v].role = "owner"
          BY <4>1, <2>0, <2>3 DEF LastOwner, EnabledOwners
      <4> QED BY <4>2, <2>1, <1>3
    <3> QED BY <3>1, <3>2, <3>3, <3>4, <1>0
  <2> QED BY <2>2, <2>3
<1>7. text = [file EXCEPT ![job.who] = text[job.who]]
  <2>1. DOMAIN file = Users /\ file = [u \in Users |-> file[u]]
      BY DEF UsersFile
  <2> QED BY <2>1, <1>3
<1>8. job.op = "rotate" => text[job.who] # None
  <2>1. job.op = "rotate" => text[job.who] \in UserRecord
      BY <1>2, <1>3 DEF UserRecord
  <2> QED BY <2>1, MarksAssumption
<1> QED BY <1>5, <1>6, <1>7, <1>8 DEF text

LEMMA MeantUserIs ==
    ASSUME NEW job, NEW text
    PROVE  /\ job.op = "remove" => MeantUser(job, text) = None
           /\ job.op = "add" => MeantUser(job, text) = text[job.who]
           /\ job.op # "remove" /\ meant.users[job.who] = None =>
                  MeantUser(job, text) = text[job.who]
BY DEF MeantUser

\* Unless someone else came between, an operation changes what it is meant to.
LEMMA ChangedIsMeant ==
    ASSUME NEW job \in Jobs, OnUsers(job), users \in UsersFile, NEW token \in Nat,
           ~Refused(job, users), meant.users = users
    PROVE  Changed(job, users, token) =
               [users EXCEPT ![job.who] = MeantUser(job, Changed(job, users, token))]
<1> DEFINE text == Changed(job, users, token)
           known == users[job.who]
<1>0. /\ job.who \in Users /\ job.role \in Role
      /\ job.op \in {"add", "remove", "set_role", "rotate"}
    BY JobTypes DEF OnUsers, UserTools
<1>1. text = [users EXCEPT ![job.who] = text[job.who]]
    BY ChangedFacts
<1>2. job.op # "add" => known \in UserRecord
  <2>1. job.op # "add" => known # None
      BY <1>0 DEF Refused, UserTools
  <2> QED BY <2>1, <1>0 DEF UsersFile
<1>3. /\ job.op = "add" => text[job.who] = [role |-> job.role, token |-> token, enabled |-> TRUE]
      /\ job.op = "set_role" => text[job.who] = [known EXCEPT !.role = job.role]
      /\ job.op = "rotate" => text[job.who] = [known EXCEPT !.token = token]
      /\ job.op = "remove" => text[job.who] = None
    BY <1>0 DEF Changed, UsersFile
<1> HIDE DEF text
<1>4. MeantUser(job, text) = text[job.who]
  <2>1. CASE job.op = "add"
      BY <2>1 DEF MeantUser
  <2>2. CASE job.op = "remove"
      BY <2>2, <1>3 DEF MeantUser
  <2>3. CASE job.op = "set_role"
      BY <2>3, <1>2, <1>3, MarksAssumption DEF MeantUser
  <2>4. CASE job.op = "rotate"
    <3>1. text[job.who].token = token
        BY <2>4, <1>2, <1>3 DEF UserRecord
    <3>2. known # None
        BY <2>4, <1>2, MarksAssumption
    <3> QED BY <2>4, <1>3, <3>1, <3>2 DEF MeantUser
  <2> QED BY <2>1, <2>2, <2>3, <2>4, <1>0
<1> QED BY <1>1, <1>4 DEF text

-----------------------------------------------------------------------------
(* What a process is at.                                                    *)

IsStep(s, at, job, text) == s.at = at /\ s.job = job /\ s.text = text

\* The step of p is the given one, and the others are where they were.
Stepped(p, at, job, text) ==
    /\ process' \in [Processes -> Step]
    /\ IsStep(process'[p], at, job, text)
    /\ \A q \in Processes : q # p => process'[q] = process[q]

LEMMA GoesFacts ==
    ASSUME process \in [Processes -> Step], NEW p \in Processes, NEW at \in Stages, Goes(p, at)
    PROVE  Stepped(p, at, process[p].job, process[p].text)
<1>1. process[p] \in Step
    OBVIOUS
<1>2. [process[p] EXCEPT !.at = at] \in Step
    BY <1>1 DEF Step
<1>3. process' = [process EXCEPT ![p] = [process[p] EXCEPT !.at = at]]
    BY DEF Goes
<1>4. IsStep([process[p] EXCEPT !.at = at], at, process[p].job, process[p].text)
    BY <1>1 DEF Step, IsStep
<1> QED BY <1>2, <1>3, <1>4 DEF Stepped

\* A process that goes on to a new step, whatever it was at.
LEMMA SetsFacts ==
    ASSUME process \in [Processes -> Step], NEW p \in Processes, NEW at \in Stages,
           NEW job \in Jobs \cup {None},
           NEW text \in UsersFile \cup ProjectDefinition \cup {None},
           process' = [process EXCEPT ![p] = [at |-> at, job |-> job, text |-> text]]
    PROVE  Stepped(p, at, job, text)
<1>1. [at |-> at, job |-> job, text |-> text] \in Step
    BY DEF Step
<1>2. IsStep([at |-> at, job |-> job, text |-> text], at, job, text)
    BY DEF IsStep
<1> QED BY <1>1, <1>2 DEF Stepped

LEMMA PastFacts ==
    ASSUME process \in [Processes -> Step], NEW p \in Processes, NEW at \in Stages, Past(p, at)
    PROVE  Stepped(p, at, None, None)
<1>1. [Stopped EXCEPT !.at = at] = [at |-> at, job |-> None, text |-> None]
    BY DEF Stopped
<1> QED BY <1>1, SetsFacts DEF Past

\* A process that has read its file goes on to write.
LEMMA TextFacts ==
    ASSUME process \in [Processes -> Step], NEW p \in Processes,
           NEW text \in UsersFile \cup ProjectDefinition \cup {None},
           process' = [process EXCEPT ![p].at = "writing", ![p].text = text]
    PROVE  Stepped(p, "writing", process[p].job, text)
<1> DEFINE next == [[process[p] EXCEPT !.at = "writing"] EXCEPT !.text = text]
<1>1. process[p] \in Step
    OBVIOUS
<1>2. next \in Step /\ IsStep(next, "writing", process[p].job, text)
    BY <1>1 DEF Step, Stages, IsStep
<1>3. process' = [process EXCEPT ![p] = next]
    OBVIOUS
<1> QED BY <1>2, <1>3 DEF Stepped

\* Each of the steps of a process, as the invariant's parts see it: what it does to the
\* process, the users and the project, under the step's conditions.
LEMMA StartIs ==
    ASSUME process \in [Processes -> Step], NEW p \in Processes, NEW job \in Jobs \cup {None},
           Start(p, job)
    PROVE  Stepped(p, "opening", job, None)
BY SetsFacts DEF Start, Stages

LEMMA StopIs ==
    ASSUME process \in [Processes -> Step], NEW p \in Processes,
           process' = [process EXCEPT ![p] = Stopped]
    PROVE  Stepped(p, "stopped", None, None)
BY SetsFacts DEF Stopped, Stages

-----------------------------------------------------------------------------
(* The parts of the invariant that are about processes, step by step.       *)

Parts == PlacesInv /\ OwnersInv /\ ProjectInv /\ MeantInv

Serves(at) == at \notin {"stopped", "opening", "creating", "checking"}

\* What the parts ask of a process that goes on and changes nothing else.
Fit(p, at, job, text) ==
    /\ p = "command" =>
        /\ at \notin {"checking", "idle", "noting"}
        /\ at \in {"opening", "creating", "loading", "writing"} => job # None /\ OnUsers(job)
        /\ at = "creating" => ~Serving /\ ~HasOwner(Listed(users))
    /\ p = "server" =>
        /\ at \in {"loading", "writing"} => job # None
        /\ Serves(at) => HasOwner(Listed(users))
        /\ at \in {"loading", "writing"} /\ ~OnUsers(job) =>
            /\ project # Missing => project.enabled
            /\ project # Missing \/ job.op = "configure"
            /\ at = "loading" => job.op \in {"expose", "revoke"}
    /\ at = "creating" => setup.at # "done"
    /\ at \notin {"stopped", "opening", "creating"} => users # Missing
    /\ at = "writing" /\ OnUsers(job) =>
        /\ text \in UsersFile
        /\ job.op = "rotate" => text[job.who] # None
        /\ HasOwner(Listed(users)) => HasOwner(text)
        /\ ~raced => text = [users EXCEPT ![job.who] = MeantUser(job, text)]
    /\ at = "writing" /\ ~OnUsers(job) => text \in ProjectDefinition /\ text = MeantProject(job, text)

LEMMA FitsKeepParts ==
    ASSUME Parts, NEW p \in Processes, NEW at, NEW job, NEW text,
           Stepped(p, at, job, text), Fit(p, at, job, text),
           UNCHANGED <<users, project, meant, raced, setup>>
    PROVE  Parts'
<1>0. /\ process'["server"] = process["server"] \/ (p = "server" /\ IsStep(process'["server"], at, job, text))
      /\ process'["command"] = process["command"] \/ (p = "command" /\ IsStep(process'["command"], at, job, text))
    BY DEF Stepped, Processes
<1>1. \A q \in Processes : process'[q] = process[q] \/ (q = p /\ IsStep(process'[q], at, job, text))
    BY DEF Stepped
<1>2. PlacesInv'
  <2>1. PlacesInv
      BY DEF Parts
  <2> QED BY <2>1, <1>0, <1>1 DEF PlacesInv, Fit, IsStep
<1>3. OwnersInv'
  <2>1. OwnersInv /\ HasOwner(Listed(users))' = HasOwner(Listed(users))
      BY DEF Parts, HasOwner, EnabledOwners, Listed
  <2>2. Serving' => HasOwner(Listed(users))
      BY <2>1, <1>0 DEF OwnersInv, LastOwnerStays, HasOwner, Serving, Fit, Serves, IsStep
  <2>3. process'["command"].at = "creating" => ~Serving' /\ ~HasOwner(Listed(users))
      BY <2>1, <2>2, <1>0 DEF OwnersInv, Fit, IsStep
  <2> QED BY <2>1, <2>2, <2>3, <1>1 DEF OwnersInv, LastOwnerStays, HasOwner, EnabledOwners, Fit, IsStep
<1>4. ProjectInv'
  <2>1. ProjectInv
      BY DEF Parts
  <2> QED BY <2>1, <1>0 DEF ProjectInv, Fit, IsStep
<1>5. MeantInv'
  <2>1. MeantInv
      BY DEF Parts
  <2>2. (meant.project = project)' /\ (~raced => meant.users = Listed(users))'
      BY <2>1 DEF MeantInv, Listed
  <2>3. ASSUME NEW q \in Processes, ~raced, process'[q].at = "writing", OnUsers(process'[q].job)
        PROVE  process'[q].text = [users EXCEPT ![process'[q].job.who] =
                                       MeantUser(process[q].job, process[q].text)']
    <3>1. CASE process'[q] = process[q]
      <4>1. process[q].text = [users EXCEPT ![process[q].job.who] =
                                   MeantUser(process[q].job, process[q].text)]
          BY <2>1, <2>3, <3>1 DEF MeantInv
      <4>2. MeantUser(process[q].job, process[q].text)' =
                MeantUser(process[q].job, process[q].text)
          BY <3>1 DEF MeantUser
      <4> QED BY <4>1, <4>2, <3>1
    <3>2. CASE IsStep(process'[q], at, job, text)
      <4>1. at = "writing" /\ OnUsers(job) /\ process'[q].job = job /\ process'[q].text = text
          BY <2>3, <3>2 DEF IsStep
      <4>2. text = [users EXCEPT ![job.who] = MeantUser(job, text)]
          BY <4>1, <2>3 DEF Fit
      <4>3. MeantUser(process[q].job, process[q].text)' = MeantUser(job, text)
          BY <4>1 DEF MeantUser
      <4> QED BY <4>1, <4>2, <4>3
    <3> QED BY <3>1, <3>2, <1>1
  <2>4. ASSUME process'["server"].at = "writing", ~OnUsers(process'["server"].job)
        PROVE  process'["server"].text =
                   MeantProject(process["server"].job, process["server"].text)'
    <3>1. CASE process'["server"] = process["server"]
        BY <2>1, <2>4, <3>1 DEF MeantInv, MeantProject
    <3>2. CASE IsStep(process'["server"], at, job, text)
        BY <2>4, <3>2 DEF Fit, IsStep, MeantProject
    <3> QED BY <3>1, <3>2, <1>0
  <2> QED BY <2>2, <2>3, <2>4 DEF MeantInv
<1> QED BY <1>2, <1>3, <1>4, <1>5 DEF Parts

\* Starting, stopping and being killed ask nothing.
LEMMA EndsFit ==
    ASSUME NEW p \in Processes PROVE Fit(p, "stopped", None, None)
BY DEF Fit, Serves, Processes

LEMMA StartKeepsParts ==
    ASSUME RegistriesType, Parts, setup' = setup, Serve \/ Command
    PROVE  Parts'
<1>1. CASE Serve
  <2>1. Stepped("server", "opening", None, None)
      BY <1>1, StartIs DEF Serve, RegistriesType, Processes
  <2>2. Fit("server", "opening", None, None)
      BY DEF Fit, Serves
  <2> QED BY <1>1, <2>1, <2>2, FitsKeepParts DEF Serve, Start, files, histories, Processes
<1>2. CASE Command
  <2>0. PICK u \in Users, op \in {"add", "rotate"} :
            Start("command", [op |-> op, who |-> u, role |-> "owner"])
      BY <1>2 DEF Command
  <2> DEFINE job == [op |-> op, who |-> u, role |-> "owner"]
  <2>1. job \in Jobs /\ OnUsers(job) /\ job # None
      BY AskedAreJobs, JobTypes
  <2> HIDE DEF job
  <2>2. Stepped("command", "opening", job, None)
      BY <2>0, <2>1, StartIs DEF RegistriesType, Processes, job
  <2>3. Fit("command", "opening", job, None)
      BY <2>1 DEF Fit
  <2> QED BY <2>0, <2>2, <2>3, FitsKeepParts DEF Start, files, histories, Processes
<1> QED BY <1>1, <1>2

LEMMA OpenKeepsParts ==
    ASSUME RegistriesType, Parts, setup' = setup, NEW p \in Processes, Open(p)
    PROVE  Parts'
<1> DEFINE at == IF users = Missing THEN "creating" ELSE Opened(p)
<1>0. at \in {"creating", "checking", "loading"} /\ Goes(p, at)
    BY DEF Open, Opened
<1>1. Stepped(p, at, process[p].job, process[p].text)
    BY <1>0, GoesFacts DEF RegistriesType, Stages
<1>2. users = Missing => ~HasOwner(Listed(users)) /\ ~Serving /\ setup.at # "done"
    BY UsersFacts DEF Parts, OwnersInv, LastOwnerStays, HasOwner
<1>3. p = "command" => process[p].job # None /\ OnUsers(process[p].job)
    BY DEF Open, Parts, PlacesInv
<1>4. /\ p = "server" => at \in {"creating", "checking"}
      /\ p = "command" => at \in {"creating", "loading"}
      /\ at = "creating" <=> users = Missing
    BY DEF Opened
<1> HIDE DEF at
<1>5. Fit(p, at, process[p].job, process[p].text)
    BY <1>0, <1>2, <1>3, <1>4 DEF Fit, Serves, Processes
<1> QED BY <1>1, <1>5, FitsKeepParts DEF Open, files, histories

LEMMA CheckOwnerKeepsParts ==
    ASSUME RegistriesType, Parts, setup' = setup, CheckOwner
    PROVE  Parts'
<1>0. "server" \in Processes /\ users \in UsersFile /\ users # Missing
    BY DEF CheckOwner, Parts, PlacesInv, RegistriesType, Processes
<1>1. CASE EnabledOwners(users) # {}
  <2>1. Stepped("server", "idle", process["server"].job, process["server"].text)
      BY <1>0, <1>1, GoesFacts DEF CheckOwner, RegistriesType, Stages
  <2>2. HasOwner(Listed(users))
      BY <1>0, <1>1, UsersFacts DEF HasOwner
  <2>3. Fit("server", "idle", process["server"].job, process["server"].text)
      BY <1>0, <2>2 DEF Fit
  <2> QED BY <1>0, <2>1, <2>3, FitsKeepParts DEF CheckOwner, files, histories
<1>2. CASE EnabledOwners(users) = {}
  <2>1. Stepped("server", "stopped", None, None)
      BY <1>0, <1>2, StopIs DEF CheckOwner, RegistriesType
  <2> QED BY <1>0, <2>1, EndsFit, FitsKeepParts DEF CheckOwner, files, histories
<1> QED BY <1>1, <1>2

LEMMA BeginKeepsParts ==
    ASSUME RegistriesType, Parts, setup' = setup, NEW caller, NEW job \in Jobs, Begin(caller, job)
    PROVE  Parts'
<1>0. "server" \in Processes /\ users # Missing /\ HasOwner(Listed(users))
      /\ process["server"].at = "idle" /\ job # None
    BY JobTypes DEF Begin, Parts, PlacesInv, OwnersInv, LastOwnerStays, HasOwner, Serving, Processes
<1>u. UNCHANGED <<users, project, meant, raced, setup>>
    BY DEF Begin, files, histories
<1>1. CASE ~Permitted(caller, job) \/ job.op \in {"use", "list"}
  <2>1. Stepped("server", "closing", None, None)
      BY <1>0, <1>1, PastFacts DEF Begin, RegistriesType, Stages
  <2>2. Fit("server", "closing", None, None)
      BY <1>0 DEF Fit
  <2> QED BY <1>0, <1>u, <2>1, <2>2, FitsKeepParts
<1>2. CASE Permitted(caller, job) /\ job.op = "configure"
  <2>0. job.as \in ProjectDefinition /\ ~OnUsers(job)
      BY <1>2, JobTypes
  <2>1. Stepped("server", "writing", job, job.as)
      BY <1>0, <1>2, <2>0, SetsFacts DEF Begin, RegistriesType, Stages
  <2>2. project # Missing => project.enabled
      BY <1>2 DEF Permitted, Authorized, UserTools
  <2>3. job.as = MeantProject(job, job.as)
      BY <1>2 DEF MeantProject
  <2>4. Fit("server", "writing", job, job.as)
      BY <1>0, <1>2, <2>0, <2>2, <2>3 DEF Fit
  <2> QED BY <1>0, <1>u, <2>1, <2>4, FitsKeepParts
<1>3. CASE Permitted(caller, job) /\ job.op \notin {"configure", "use", "list"}
  <2>1. Stepped("server", "loading", job, None)
      BY <1>0, <1>3, SetsFacts DEF Begin, RegistriesType, Stages
  <2>2. ~OnUsers(job) => job.op \in {"expose", "revoke"}
      BY <1>3, JobTypes
  <2>3. job.op \in {"expose", "revoke"} => project # Missing /\ project.enabled
      BY <1>3 DEF Permitted, Authorized, UserTools
  <2>4. Fit("server", "loading", job, None)
      BY <1>0, <2>2, <2>3 DEF Fit
  <2> QED BY <1>0, <1>u, <2>1, <2>4, FitsKeepParts
<1> QED BY <1>1, <1>2, <1>3

LEMMA LoadUsersKeepsParts ==
    ASSUME RegistriesType, Parts, setup' = setup, NEW p \in Processes, LoadUsers(p)
    PROVE  Parts'
<1> DEFINE job == process[p].job
           text == Changed(job, users, issued')
<1>0. /\ process[p].at = "loading" /\ OnUsers(job) /\ users \in UsersFile /\ users # Missing
      /\ job # None
    BY DEF LoadUsers, Parts, PlacesInv, RegistriesType, Processes
<1>1. job \in Jobs
    BY <1>0 DEF RegistriesType, Step
<1>u. UNCHANGED <<users, project, meant, raced, setup>>
    BY DEF LoadUsers, files, histories
<1>s. p = "server" => HasOwner(Listed(users))
    BY <1>0 DEF Parts, OwnersInv, LastOwnerStays, HasOwner, Serving
<1>2. CASE Refused(job, users)
  <2>1. /\ p = "server" => Stepped(p, "closing", None, None)
        /\ p = "command" => Stepped(p, "stopped", None, None)
      BY <1>2, PastFacts DEF LoadUsers, Fails, RegistriesType, Stages, Processes
  <2>2. p = "server" => Fit(p, "closing", None, None)
      BY <1>0, <1>s DEF Fit
  <2> QED BY <1>u, <2>1, <2>2, EndsFit, FitsKeepParts DEF Processes
<1>3. CASE ~Refused(job, users)
  <2>0. issued' \in Nat /\ process' = [process EXCEPT ![p].at = "writing", ![p].text = text]
      BY <1>3 DEF LoadUsers, RegistriesType
  <2>1. /\ text \in UsersFile /\ (HasOwner(users) => HasOwner(text))
        /\ job.op = "rotate" => text[job.who] # None
      BY <1>0, <1>1, <1>3, <2>0, ChangedFacts
  <2>2. ~raced => text = [users EXCEPT ![job.who] = MeantUser(job, text)]
    <3>1. ~raced => meant.users = users
        BY <1>0, UsersFacts DEF Parts, MeantInv
    <3> QED BY <1>0, <1>1, <1>3, <2>0, <3>1, ChangedIsMeant
  <2> HIDE DEF text
  <2>3. Stepped(p, "writing", job, text)
      BY <2>0, <2>1, TextFacts DEF RegistriesType
  <2>4. HasOwner(Listed(users)) => HasOwner(text)
      BY <1>0, <2>1, UsersFacts
  <2> HIDE DEF job
  <2>5. Fit(p, "writing", job, text)
      BY <1>0, <1>s, <2>1, <2>2, <2>4 DEF Fit
  <2> QED BY <1>u, <2>3, <2>5, FitsKeepParts DEF job
<1> QED BY <1>2, <1>3

LEMMA LoadProjectKeepsParts ==
    ASSUME RegistriesType, Parts, setup' = setup, LoadProject
    PROVE  Parts'
<1> DEFINE job == process["server"].job
           text == [project EXCEPT !.exposed_folders =
                       IF job.op = "expose" THEN @ \cup {job.folder} ELSE @ \ {job.folder}]
<1>0. /\ process["server"].at = "loading" /\ ~OnUsers(job) /\ users # Missing /\ job # None
      /\ job.op \in {"expose", "revoke"} /\ project # Missing /\ project.enabled
      /\ HasOwner(Listed(users)) /\ meant.project = project /\ "server" \in Processes
  <2>1. process["server"].at = "loading" /\ ~OnUsers(job) /\ "server" \in Processes
      BY DEF LoadProject, Processes
  <2>2. users # Missing /\ job # None
      BY <2>1 DEF Parts, PlacesInv
  <2>3. /\ project # Missing => project.enabled
        /\ project # Missing \/ job.op = "configure"
        /\ job.op \in {"expose", "revoke"}
      BY <2>1 DEF Parts, ProjectInv
  <2>4. HasOwner(Listed(users))
      BY <2>1 DEF Parts, OwnersInv, LastOwnerStays, HasOwner, Serving
  <2>5. meant.project = project
      BY DEF Parts, MeantInv
  <2> QED BY <2>1, <2>2, <2>3, <2>4, <2>5
<1>1. job \in Jobs /\ job.folder \in Folders
    BY <1>0, JobTypes DEF RegistriesType, Step
<1>u. UNCHANGED <<users, project, meant, raced, setup>>
    BY DEF LoadProject, files, histories
<1>2. CASE Fails("server")
  <2>1. Stepped("server", "closing", None, None)
      BY <1>0, <1>2, PastFacts DEF Fails, RegistriesType, Stages
  <2>2. Fit("server", "closing", None, None)
      BY <1>0 DEF Fit
  <2> QED BY <1>0, <1>u, <2>1, <2>2, FitsKeepParts
<1>3. CASE process' = [process EXCEPT !["server"].at = "writing", !["server"].text = text]
  <2>1. project \in ProjectDefinition
      BY <1>0 DEF RegistriesType
  <2>2. text \in ProjectDefinition
      BY <1>1, <2>1 DEF ProjectDefinition
  <2>3. text = MeantProject(job, text)
      BY <1>0 DEF MeantProject
  <2> HIDE DEF text
  <2>4. Stepped("server", "writing", job, text)
      BY <1>0, <1>3, <2>2, TextFacts DEF RegistriesType
  <2> HIDE DEF job
  <2>5. Fit("server", "writing", job, text)
      BY <1>0, <2>2, <2>3 DEF Fit
  <2> QED BY <1>0, <1>u, <2>4, <2>5, FitsKeepParts DEF job
<1> QED BY <1>2, <1>3 DEF LoadProject

LEMMA CloseKeepsParts ==
    ASSUME RegistriesType, Parts, setup' = setup, Note \/ Close
    PROVE  Parts'
<1>0. PICK at \in {"closing", "idle"} : Goes("server", at)
    BY DEF Note, Close
<1>1. "server" \in Processes /\ users # Missing /\ HasOwner(Listed(users))
    BY DEF Note, Close, Parts, PlacesInv, OwnersInv, LastOwnerStays, HasOwner, Serving, Processes
<1>2. Stepped("server", at, process["server"].job, process["server"].text)
    BY <1>0, <1>1, GoesFacts DEF RegistriesType, Stages
<1>3. Fit("server", at, process["server"].job, process["server"].text)
    BY <1>0, <1>1 DEF Fit
<1> QED BY <1>1, <1>2, <1>3, FitsKeepParts DEF Note, Close, files, histories

LEMMA EndKeepsParts ==
    ASSUME RegistriesType, Parts, setup' = setup,
           Printed \/ Shutdown \/ \E p \in Processes : Kill(p)
    PROVE  Parts'
<1>1. CASE Printed
  <2>1. Stepped("command", "stopped", process["command"].job, process["command"].text)
      BY <1>1, GoesFacts DEF Printed, RegistriesType, Stages, Processes
  <2>2. Fit("command", "stopped", process["command"].job, process["command"].text)
      BY DEF Fit
  <2> QED BY <1>1, <2>1, <2>2, FitsKeepParts DEF Printed, files, histories, Processes
<1>2. CASE Shutdown
  <2>1. Stepped("server", "stopped", None, None)
      BY <1>2, StopIs DEF Shutdown, RegistriesType, Processes
  <2> QED BY <1>2, <2>1, EndsFit, FitsKeepParts DEF Shutdown, files, histories, Processes
<1>3. CASE \E p \in Processes : Kill(p)
  <2>0. PICK p \in Processes : Kill(p)
      BY <1>3
  <2>1. Stepped(p, "stopped", None, None)
      BY <2>0, StopIs DEF Kill, RegistriesType
  <2> QED BY <2>0, <2>1, EndsFit, FitsKeepParts DEF Kill, files, histories
<1> QED BY <1>1, <1>2, <1>3

\* Where nothing that the parts are about changes, they stay.
LEMMA SameKeepsParts ==
    ASSUME Parts, UNCHANGED <<users, project, meant, raced, setup, process>>
    PROVE  Parts'
<1>1. PlacesInv' /\ ProjectInv'
    BY DEF Parts, PlacesInv, ProjectInv
<1>2. OwnersInv'
    BY DEF Parts, OwnersInv, LastOwnerStays, Serving, HasOwner, EnabledOwners, Listed
<1>3. MeantInv'
  <2>1. MeantInv
      BY DEF Parts
  <2>2. \A q \in Processes : MeantUser(process[q].job, process[q].text)' =
                             MeantUser(process[q].job, process[q].text)
      BY DEF MeantUser
  <2>3. MeantProject(process["server"].job, process["server"].text)' =
            MeantProject(process["server"].job, process["server"].text)
      BY DEF MeantProject
  <2> QED BY <2>1, <2>2, <2>3 DEF MeantInv, Listed
<1> QED BY <1>1, <1>2, <1>3 DEF Parts

LEMMA CreateUsersKeepsParts ==
    ASSUME RegistriesType, Parts, setup' = setup, NEW p \in Processes, CreateUsers(p)
    PROVE  Parts'
<1>0. /\ process[p].at = "creating" /\ users' = NoUsers /\ UNCHANGED <<project, meant>>
      /\ raced' = (raced \/ users # Missing)
    BY DEF CreateUsers
<1>1. Stepped(p, Opened(p), process[p].job, process[p].text)
    BY GoesFacts DEF CreateUsers, Opened, RegistriesType, Stages
<1>2. users' # Missing /\ ~HasOwner(Listed(users))'
    BY <1>0, UsersFacts DEF Listed, HasOwner, EnabledOwners
<1>3. setup.at # "done" /\ ~Serving
    BY <1>0 DEF Parts, OwnersInv, Serving, Processes
<1>4. p = "command" => process[p].job # None /\ OnUsers(process[p].job)
    BY <1>0 DEF Parts, PlacesInv
<1>5. /\ \A q \in Processes : \/ process'[q] = process[q]
                              \/ q = p /\ IsStep(process'[q], Opened(p), process[p].job, process[p].text)
      /\ Opened(p) = IF p = "server" THEN "checking" ELSE "loading"
    BY <1>1 DEF Stepped, Opened
<1>6. ~Serving'
    BY <1>3, <1>5 DEF Serving, Processes, IsStep
<1>7. PlacesInv'
  <2>1. PlacesInv
      BY DEF Parts
  <2> QED BY <2>1, <1>2, <1>4, <1>5 DEF PlacesInv, Processes, IsStep
<1>8. OwnersInv'
    BY <1>0, <1>2, <1>3, <1>6 DEF OwnersInv, LastOwnerStays, HasOwner
<1>9. ProjectInv'
  <2>1. ProjectInv
      BY DEF Parts
  <2> QED BY <2>1, <1>0, <1>5 DEF ProjectInv, Processes, IsStep
<1>10. MeantInv'
  <2>1. MeantInv /\ PlacesInv
      BY DEF Parts
  <2>2. ~raced' => ~raced /\ users = Missing
      BY <1>0
  <2>3. ~raced' => meant.users = Listed(users)'
      BY <2>1, <2>2, <1>0, UsersFacts DEF MeantInv, Listed
  <2>4. ASSUME NEW q \in Processes, ~raced', process'[q].at = "writing" PROVE FALSE
      BY <2>1, <2>2, <2>4, <1>5 DEF PlacesInv, IsStep
  <2>5. ASSUME process'["server"].at = "writing" PROVE process'["server"] = process["server"]
      BY <2>5, <1>5 DEF Processes, IsStep
  <2>6. process'["server"].at = "writing" /\ ~OnUsers(process'["server"].job) =>
            process'["server"].text = MeantProject(process["server"].job, process["server"].text)'
      BY <2>1, <2>5, <1>0 DEF MeantInv, MeantProject
  <2> QED BY <2>1, <2>3, <2>4, <2>6, <1>0 DEF MeantInv
<1> QED BY <1>7, <1>8, <1>9, <1>10 DEF Parts

LEMMA WriteUsersKeepsParts ==
    ASSUME RegistriesType, Parts, setup' = setup, NEW p \in Processes, WriteUsers(p)
    PROVE  Parts'
<1> DEFINE job == process[p].job
           text == process[p].text
<1>0. /\ process[p].at = "writing" /\ OnUsers(job) /\ users' = text /\ project' = project
      /\ meant' = [meant EXCEPT !.users[job.who] = MeantUser(job, users')]
      /\ raced' = (raced \/ (process[Other(p)].at = "writing" /\ OnUsers(process[Other(p)].job)))
    BY DEF WriteUsers
<1>1. Stepped(p, "closing", None, None)
    BY PastFacts DEF WriteUsers, RegistriesType, Stages
<1>2. /\ text \in UsersFile /\ users # Missing
      /\ ~raced => text = [users EXCEPT ![job.who] = MeantUser(job, text)]
    BY <1>0 DEF Parts, PlacesInv, MeantInv
<1>3. users \in UsersFile /\ job \in Jobs /\ job.who \in Users
  <2>1. users \in UsersFile /\ job \in Jobs \cup {None}
      BY <1>2 DEF RegistriesType, Step
  <2>2. job # None
      BY <1>0 DEF Parts, PlacesInv, Processes
  <2> QED BY <2>1, <2>2, <1>0, JobTypes
<1>4. HasOwner(users) => HasOwner(text)
    BY <1>0, <1>3, UsersFacts DEF Parts, OwnersInv
<1>5. /\ \A q \in Processes : \/ process'[q] = process[q]
                              \/ q = p /\ IsStep(process'[q], "closing", None, None)
      /\ Processes = {p, Other(p)}
      /\ IsStep(process'[p], "closing", None, None)
    BY <1>1 DEF Stepped, Other, Processes
<1>6. Serving' <=> Serving
    BY <1>0, <1>5 DEF Serving, Processes, IsStep
<1>7. users' # Missing /\ Listed(users)' = text /\ HasOwner(Listed(users))' = HasOwner(text)
  <2>1. users' # Missing /\ Listed(users)' = text
      BY <1>0, <1>2, UsersFacts DEF Listed
  <2> QED BY <2>1 DEF HasOwner, EnabledOwners
<1>8. Serving \/ setup.at = "done" => HasOwner(users)
    BY <1>3, UsersFacts DEF Parts, OwnersInv, LastOwnerStays, HasOwner
<1>9. PlacesInv'
  <2>1. PlacesInv
      BY DEF Parts
  <2> QED BY <2>1, <1>5, <1>7 DEF PlacesInv, Processes, IsStep
<1>10. OwnersInv'
  <2>1. OwnersInv
      BY DEF Parts
  <2>2. Serving' \/ setup'.at = "done" => HasOwner(Listed(users))'
      BY <1>4, <1>6, <1>7, <1>8
  <2>3. ASSUME process'["command"].at = "creating"
        PROVE  ~Serving' /\ ~HasOwner(Listed(users))'
    <3>1. process["command"].at = "creating" /\ p # "command"
        BY <2>3, <1>5 DEF Processes, IsStep
    <3>2. p = "server" /\ ~Serving
        BY <3>1, <2>1 DEF OwnersInv, Processes
    <3>3. Serving
        BY <3>2, <1>0 DEF Serving
    <3> QED BY <3>2, <3>3
  <2>4. setup'.at = "done" => \A q \in Processes : process'[q].at # "creating"
      BY <2>1, <1>5 DEF OwnersInv, IsStep
  <2>5. ASSUME NEW q \in Processes, process'[q].at = "writing", OnUsers(process'[q].job)
        PROVE  HasOwner(process'[q].text)
    <3>1. q # p /\ process'[q] = process[q]
        BY <2>5, <1>5 DEF IsStep
    <3>2. process["server"].at = "writing"
        BY <3>1, <2>5, <1>0, <1>5 DEF Processes
    <3>3. HasOwner(users)
        BY <3>2, <1>8 DEF Serving
    <3>4. HasOwner(Listed(users))
        BY <3>3, <1>3, UsersFacts
    <3> QED BY <3>1, <3>4, <2>1, <2>5 DEF OwnersInv
  <2>6. \A q \in Processes :
            process'[q].at = "writing" /\ OnUsers(process'[q].job) => HasOwner(process[q].text)'
      BY <2>5 DEF HasOwner, EnabledOwners
  <2> QED BY <2>2, <2>3, <2>4, <2>6 DEF OwnersInv, LastOwnerStays, HasOwner
<1>11. ProjectInv'
  <2>1. ProjectInv
      BY DEF Parts
  <2> QED BY <2>1, <1>0, <1>5 DEF ProjectInv, Processes, IsStep
<1>12. MeantInv'
  <2>1. MeantInv
      BY DEF Parts
  <2>2. meant'.project = project'
    <3>1. meant'.project = meant.project
        BY <1>0 DEF RegistriesType
    <3> QED BY <3>1, <2>1, <1>0 DEF MeantInv
  <2>3. ASSUME ~raced' PROVE meant'.users = Listed(users)'
    <3>1. meant.users = users
        BY <2>3, <2>1, <1>0, <1>3, UsersFacts DEF MeantInv
    <3>2. meant'.users = [meant.users EXCEPT ![job.who] = MeantUser(job, text)]
        BY <1>0 DEF RegistriesType
    <3>3. ~raced
        BY <2>3, <1>0
    <3> QED BY <3>1, <3>2, <3>3, <1>2, <1>7
  <2>4. ASSUME NEW q \in Processes, ~raced', process'[q].at = "writing", OnUsers(process'[q].job)
        PROVE  FALSE
    <3>1. q = Other(p) /\ process'[q] = process[q]
        BY <2>4, <1>5 DEF IsStep
    <3> QED BY <3>1, <2>4, <1>0
  <2>5. process'["server"].at = "writing" => process'["server"] = process["server"]
      BY <1>5 DEF Processes, IsStep
  <2>6. meant'.project = meant.project
      BY <1>0 DEF RegistriesType
  <2>7. process'["server"].at = "writing" /\ ~OnUsers(process'["server"].job) =>
            process'["server"].text = MeantProject(process["server"].job, process["server"].text)'
      BY <2>1, <2>5, <2>6 DEF MeantInv, MeantProject
  <2> QED BY <2>2, <2>3, <2>4, <2>7 DEF MeantInv
<1> QED BY <1>9, <1>10, <1>11, <1>12 DEF Parts

LEMMA WriteProjectKeepsParts ==
    ASSUME RegistriesType, Parts, setup' = setup, WriteProject
    PROVE  Parts'
<1> DEFINE job == process["server"].job
           text == process["server"].text
           at == IF job.op = "configure" THEN "noting" ELSE "closing"
<1>0. /\ process["server"].at = "writing" /\ ~OnUsers(job) /\ project' = text
      /\ meant' = [meant EXCEPT !.project = MeantProject(job, project')]
      /\ Past("server", at) /\ UNCHANGED <<users, raced>>
    BY DEF WriteProject
<1>1. Stepped("server", at, None, None) /\ at \in {"noting", "closing"}
    BY <1>0, PastFacts DEF RegistriesType, Stages, Processes
<1>2. text = MeantProject(job, text)
    BY <1>0 DEF Parts, MeantInv
<1>3. process'["command"] = process["command"] /\ IsStep(process'["server"], at, None, None)
    BY <1>1 DEF Stepped, Processes
<1>4. Serving' <=> Serving
    BY <1>0, <1>1, <1>3 DEF Serving, IsStep
<1>5. PlacesInv'
  <2>1. PlacesInv
      BY DEF Parts
  <2> QED BY <2>1, <1>0, <1>1, <1>3 DEF PlacesInv, Processes, IsStep
<1>6. OwnersInv'
  <2>1. OwnersInv
      BY DEF Parts
  <2> QED BY <2>1, <1>0, <1>1, <1>3, <1>4
          DEF OwnersInv, LastOwnerStays, HasOwner, EnabledOwners, Listed, Processes, IsStep
<1>7. ProjectInv'
    BY <1>1, <1>3 DEF ProjectInv, IsStep
<1>8. MeantInv'
  <2>1. MeantInv
      BY DEF Parts
  <2>2. meant'.project = project' /\ meant'.users = meant.users
      BY <1>0, <1>2 DEF RegistriesType
  <2>3. ~raced' => meant'.users = Listed(users)'
      BY <2>1, <2>2, <1>0 DEF MeantInv, Listed
  <2>4. process'["server"].at # "writing"
      BY <1>1, <1>3 DEF IsStep
  <2>5. ASSUME NEW q \in Processes, ~raced', process'[q].at = "writing", OnUsers(process'[q].job)
        PROVE  process'[q].text = [users' EXCEPT ![process'[q].job.who] =
                                       MeantUser(process[q].job, process[q].text)']
    <3>1. process'[q] = process[q]
        BY <2>4, <2>5, <1>3 DEF Processes
    <3>2. process[q].text = [users EXCEPT ![process[q].job.who] =
                                 MeantUser(process[q].job, process[q].text)]
        BY <3>1, <2>1, <2>5, <1>0 DEF MeantInv
    <3>3. MeantUser(process[q].job, process[q].text)' = MeantUser(process[q].job, process[q].text)
        BY <3>1, <2>2 DEF MeantUser
    <3> QED BY <3>1, <3>2, <3>3, <1>0
  <2> QED BY <2>2, <2>3, <2>4, <2>5 DEF MeantInv
<1> QED BY <1>5, <1>6, <1>7, <1>8 DEF Parts

-----------------------------------------------------------------------------
(* The audit log and the types, step by step.                               *)

LEMMA AuditIsSound ==
    ASSUME RegistriesType PROVE AuditInv <=> Sound(log, recorded)
<1>0. log \in [Files -> SUBSET Nat] /\ recorded \in Nat
    BY DEF RegistriesType
<1>1. \A n \in Nat : n \in Kept <=> In(log, n)
    BY DEF Kept, In
<1>2. Kept \subseteq Nat
    BY <1>0 DEF Kept
<1>3. ASSUME AuditInv PROVE Sound(log, recorded)
  <2>1. \A n \in Nat : In(log, n) => n <= recorded
      BY <1>1, <1>3 DEF AuditInv
  <2>2. ASSUME NEW n \in Nat, In(log, n), NEW m \in n..recorded PROVE In(log, m)
      BY <1>0, <1>1, <1>3, <2>2 DEF AuditInv, AuditIsContiguous
  <2>3. recorded = 0 \/ In(log, recorded)
      BY <1>0, <1>1, <1>3 DEF AuditInv, AuditIsContiguous
  <2>4. \A i, j \in Files : i < j => \A m \in log[i], n \in log[j] : n < m
      BY <1>3 DEF AuditInv, AuditIsContiguous
  <2> QED BY <1>0, <2>1, <2>2, <2>3, <2>4 DEF Sound
<1>4. ASSUME Sound(log, recorded) PROVE AuditInv
  <2>1. \A n \in Kept : n <= recorded
      BY <1>1, <1>2, <1>4 DEF Sound
  <2>2. ASSUME NEW n \in Kept, NEW m \in n..recorded PROVE m \in Kept
    <3>1. n \in Nat /\ m \in Nat
        BY <1>0, <1>2
    <3> QED BY <3>1, <1>1, <1>4 DEF Sound
  <2>3. recorded = 0 \/ recorded \in Kept
      BY <1>0, <1>1, <1>4 DEF Sound
  <2>4. \A i, j \in Files : i < j => \A m \in log[i], n \in log[j] : n < m
      BY <1>4 DEF Sound
  <2> QED BY <2>1, <2>2, <2>3, <2>4 DEF AuditInv, AuditIsContiguous
<1> QED BY <1>3, <1>4

LEMMA RecordKeepsSound ==
    ASSUME Sound(log, recorded), Record PROVE Sound(log, recorded)'
<1>1. Sound(Recorded(log, recorded + 1), recorded + 1)
    BY RecordedSound
<1>2. log' = Recorded(log, recorded + 1) /\ recorded' = recorded + 1
    BY DEF Record
<1> QED BY <1>1, <1>2 DEF Sound, In

LEMMA SameKeepsSound ==
    ASSUME Sound(log, recorded), UNCHANGED audit PROVE Sound(log, recorded)'
BY DEF Sound, In, audit

\* Every step of the registries leaves the audit log sound.
LEMMA RegistriesKeepSound ==
    ASSUME Sound(log, recorded), RegistriesNext PROVE Sound(log, recorded)'
<1>1. CASE UNCHANGED audit
    BY <1>1, SameKeepsSound
<1>2. CASE Record
    BY <1>2, RecordKeepsSound
<1>3. CASE recorded' = recorded /\ log' \in Interrupted(log)
  <2>1. Sound(log', recorded)
      BY <1>3, InterruptedSound
  <2> QED BY <1>3, <2>1 DEF Sound, In
<1>4. Serve \/ Command \/ CheckOwner => UNCHANGED audit
    BY DEF Serve, Command, Start, CheckOwner
<1>5. \A p \in Processes : Open(p) \/ CreateUsers(p) \/ LoadUsers(p) \/ WriteUsers(p) =>
          UNCHANGED audit
    BY DEF Open, CreateUsers, LoadUsers, WriteUsers
<1>6. ASSUME NEW p \in Processes, Kill(p)
      PROVE  UNCHANGED audit \/ (recorded' = recorded /\ log' \in Interrupted(log))
    BY <1>6 DEF Kill, audit
<1>7. (\E u \in Users : Authenticate(u)) \/ LoadProject \/ WriteProject \/ Printed \/ Shutdown =>
          UNCHANGED audit
    BY DEF Authenticate, LoadProject, WriteProject, Printed, Shutdown
<1>8. Call \/ Note \/ Close => UNCHANGED audit \/ Record
    BY DEF Call, Begin, Note, Close
<1> QED BY <1>1, <1>2, <1>3, <1>4, <1>5, <1>6, <1>7, <1>8 DEF RegistriesNext

\* Every step of the registries keeps their types.
LEMMA RegistriesKeepType ==
    ASSUME RegistriesType, Parts, Sound(log, recorded), RegistriesNext
    PROVE  RegistriesType'
<1>0. log' \in [Files -> SUBSET Nat] /\ recorded' \in Nat
    BY RegistriesKeepSound DEF Sound
<1>p. "server" \in Processes /\ "command" \in Processes
    BY DEF Processes
<1>1. CASE Serve
  <2>1. process' \in [Processes -> Step]
      BY <1>1, <1>p, StartIs DEF Serve, RegistriesType, Stepped
  <2> QED BY <1>0, <1>1, <2>1, LimitsAssumption DEF Serve, Start, RegistriesType, files, histories
<1>2. CASE Command
  <2>1. PICK u \in Users, op \in {"add", "rotate"} :
            Start("command", [op |-> op, who |-> u, role |-> "owner"])
      BY <1>2 DEF Command
  <2>2. process' \in [Processes -> Step]
      BY <2>1, <1>p, AskedAreJobs, StartIs DEF RegistriesType, Stepped
  <2> QED BY <1>0, <2>1, <2>2, LimitsAssumption DEF Start, RegistriesType, files, histories
<1>3. ASSUME NEW p \in Processes, Open(p) PROVE RegistriesType'
  <2>1. PICK at \in Stages : Goes(p, at)
      BY <1>3 DEF Open, Opened, Stages
  <2>2. process' \in [Processes -> Step]
      BY <2>1, GoesFacts DEF RegistriesType, Stepped
  <2> QED BY <1>0, <1>3, <2>2 DEF Open, RegistriesType, files, histories, bounds
<1>4. ASSUME NEW p \in Processes, CreateUsers(p) PROVE RegistriesType'
  <2>1. process' \in [Processes -> Step]
      BY <1>4, GoesFacts DEF CreateUsers, Opened, Stages, RegistriesType, Stepped
  <2>2. users' \in UsersFile /\ raced' \in BOOLEAN
      BY <1>4, UsersFacts DEF CreateUsers
  <2> QED BY <1>0, <1>4, <2>1, <2>2 DEF CreateUsers, RegistriesType, bounds
<1>5. CASE CheckOwner
  <2>1. process' \in [Processes -> Step]
      BY <1>5, <1>p, GoesFacts, StopIs DEF CheckOwner, Stages, RegistriesType, Stepped
  <2> QED BY <1>0, <1>5, <2>1 DEF CheckOwner, RegistriesType, files, histories, bounds
<1>6. ASSUME NEW u \in Users, Authenticate(u) PROVE RegistriesType'
  <2>1. users \in UsersFile
      BY <1>6 DEF Authenticate, Serving, Parts, PlacesInv, RegistriesType, Processes
  <2>2. users[u] \in UserRecord
      BY <1>6, <2>1 DEF UsersFile, Authenticate
  <2>3. waiting' \subseteq [user : Users, role : Role]
      BY <1>6, <2>2 DEF UserRecord, Authenticate
  <2> QED BY <1>0, <1>6, <2>3 DEF Authenticate, RegistriesType, files, histories, bounds
<1>7. CASE Call
  <2>1. PICK caller \in waiting, job \in ServedJobs : Begin(caller, job)
      BY <1>7 DEF Call
  <2>2. job \in Jobs
      BY AskedAreJobs
  <2>3. process' \in [Processes -> Step]
    <3>1. CASE ~Permitted(caller, job) \/ job.op \in {"use", "list"}
        BY <2>1, <3>1, <1>p, PastFacts DEF Begin, RegistriesType, Stages, Stepped
    <3>2. CASE Permitted(caller, job) /\ job.op = "configure"
      <4>1. job.as \in ProjectDefinition
          BY <3>2, <2>2, JobTypes
      <4> QED BY <2>1, <2>2, <3>2, <4>1, <1>p, SetsFacts DEF Begin, RegistriesType, Stages, Stepped
    <3>3. CASE Permitted(caller, job) /\ job.op \notin {"configure", "use", "list"}
        BY <2>1, <2>2, <3>3, <1>p, SetsFacts DEF Begin, RegistriesType, Stages, Stepped
    <3> QED BY <3>1, <3>2, <3>3
  <2>4. /\ calls' \in 0..MaxCalls /\ waiting' \subseteq [user : Users, role : Role]
        /\ UNCHANGED <<users, project, issued, meant, raced, void, commands, kills>>
      BY <2>1, LimitsAssumption DEF Begin, RegistriesType, files, histories
  <2> QED BY <1>0, <2>3, <2>4 DEF RegistriesType
<1>8. ASSUME NEW p \in Processes, LoadUsers(p) PROVE RegistriesType'
  <2> DEFINE job == process[p].job
             text == Changed(job, users, issued')
  <2>1. users \in UsersFile /\ OnUsers(job)
      BY <1>8 DEF LoadUsers, Parts, PlacesInv, RegistriesType
  <2>2. job \in Jobs
    <3>1. job # None /\ job \in Jobs \cup {None}
        BY <1>8 DEF LoadUsers, Parts, PlacesInv, RegistriesType, Step, Processes
    <3> QED BY <3>1
  <2>3. issued' \in Nat
      BY <1>8 DEF LoadUsers, RegistriesType
  <2>4. process' \in [Processes -> Step]
    <3>1. CASE Refused(job, users)
        BY <1>8, <3>1, PastFacts DEF LoadUsers, Fails, RegistriesType, Stages, Stepped
    <3>2. CASE ~Refused(job, users)
      <4>1. text \in UsersFile
          BY <2>1, <2>2, <2>3, <3>2, ChangedFacts
      <4>2. process' = [process EXCEPT ![p].at = "writing", ![p].text = text]
          BY <1>8, <3>2 DEF LoadUsers
      <4> QED BY <4>1, <4>2, TextFacts DEF RegistriesType, Stepped
    <3> QED BY <3>1, <3>2
  <2> QED BY <1>0, <1>8, <2>3, <2>4 DEF LoadUsers, RegistriesType, files, histories, bounds
<1>9. CASE LoadProject
  <2> DEFINE job == process["server"].job
             text == [project EXCEPT !.exposed_folders =
                         IF job.op = "expose" THEN @ \cup {job.folder} ELSE @ \ {job.folder}]
  <2>1. process' \in [Processes -> Step]
    <3>1. CASE Fails("server")
        BY <3>1, <1>p, PastFacts DEF Fails, RegistriesType, Stages, Stepped
    <3>2. CASE process' = [process EXCEPT !["server"].at = "writing", !["server"].text = text]
      <4>1. job # None /\ job \in Jobs \cup {None} /\ job.op \in {"expose", "revoke"}
          BY <1>9, <1>p DEF LoadProject, Parts, PlacesInv, ProjectInv, RegistriesType, Step
      <4>2. project \in ProjectDefinition
          BY <1>9, <4>1 DEF LoadProject, Parts, ProjectInv, RegistriesType
      <4>3. job.folder \in Folders
          BY <4>1, JobTypes
      <4>4. text \in ProjectDefinition
          BY <4>2, <4>3 DEF ProjectDefinition
      <4> QED BY <3>2, <4>4, <1>p, TextFacts DEF RegistriesType, Stepped
    <3> QED BY <1>9, <3>1, <3>2 DEF LoadProject
  <2> QED BY <1>0, <1>9, <2>1 DEF LoadProject, RegistriesType, files, histories, bounds
<1>10. ASSUME NEW p \in Processes, WriteUsers(p) PROVE RegistriesType'
  <2> DEFINE job == process[p].job
             known == meant.users[job.who]
             user == MeantUser(job, users')
  <2>1. users' \in UsersFile /\ OnUsers(job)
      BY <1>10 DEF WriteUsers, Parts, PlacesInv
  <2>2. job \in Jobs
    <3>1. job # None /\ job \in Jobs \cup {None}
        BY <1>10 DEF WriteUsers, Parts, PlacesInv, RegistriesType, Step, Processes
    <3> QED BY <3>1
  <2>3. job.who \in Users /\ job.role \in Role
      BY <2>1, <2>2, JobTypes
  <2>4. meant.users \in UsersFile
      BY DEF RegistriesType
  <2>5. known \in UserRecord \cup {None} /\ users'[job.who] \in UserRecord \cup {None}
      BY <2>1, <2>3, <2>4 DEF UsersFile
  <2>6. process' \in [Processes -> Step]
      BY <1>10, PastFacts DEF WriteUsers, RegistriesType, Stages, Stepped
  <2>7. meant' = [meant EXCEPT !.users[job.who] = user]
      BY <1>10 DEF WriteUsers
  <2>8. void' \subseteq [user : Users, token : Nat]
    <3>1. known # None => [user |-> job.who, token |-> known.token] \in [user : Users, token : Nat]
        BY <2>3, <2>5 DEF UserRecord
    <3> QED BY <1>10, <3>1 DEF WriteUsers, RegistriesType
  <2>9. user \in UserRecord \cup {None}
    <3>1. CASE job.op = "remove"
      <4>1. user = None
          BY <3>1, MeantUserIs
      <4> QED BY <4>1
    <3>2. CASE job.op = "add" \/ (job.op # "remove" /\ known = None)
      <4>1. user = users'[job.who]
          BY <3>2, MeantUserIs
      <4> QED BY <4>1, <2>5
    <3>3. CASE job.op = "set_role" /\ known # None
      <4>1. user = [known EXCEPT !.role = job.role]
          BY <3>3 DEF MeantUser
      <4> QED BY <4>1, <3>3, <2>3, <2>5 DEF UserRecord
    <3>4. CASE job.op = "rotate" /\ known # None
      <4>1. user = [known EXCEPT !.token = users'[job.who].token]
          BY <3>4 DEF MeantUser
      <4>2. users'[job.who] # None
          BY <3>4, <1>10, <2>1 DEF WriteUsers, Parts, PlacesInv
      <4>3. users'[job.who].token \in Nat
          BY <4>2, <2>5 DEF UserRecord
      <4> QED BY <4>1, <4>3, <3>4, <2>5 DEF UserRecord
    <3> QED BY <3>1, <3>2, <3>3, <3>4, <2>1 DEF OnUsers, UserTools
  <2> HIDE DEF user
  <2>10. meant' \in [users : UsersFile, project : ProjectDefinition \cup {Missing}]
    <3>1. [meant.users EXCEPT ![job.who] = user] \in UsersFile
        BY <2>3, <2>4, <2>9 DEF UsersFile
    <3> QED BY <3>1, <2>7 DEF RegistriesType
  <2> QED BY <1>0, <1>10, <2>1, <2>6, <2>8, <2>10 DEF WriteUsers, RegistriesType, bounds
<1>11. CASE WriteProject
  <2> DEFINE text == process["server"].text
             job == process["server"].job
  <2>1. text \in ProjectDefinition /\ text = MeantProject(job, text)
      BY <1>11, <1>p DEF WriteProject, Parts, PlacesInv, MeantInv
  <2>2. process' \in [Processes -> Step]
      BY <1>11, <1>p, PastFacts DEF WriteProject, RegistriesType, Stages, Stepped
  <2>3. meant' \in [users : UsersFile, project : ProjectDefinition \cup {Missing}]
      BY <1>11, <2>1 DEF WriteProject, RegistriesType
  <2> QED BY <1>0, <1>11, <2>1, <2>2, <2>3 DEF WriteProject, RegistriesType, bounds
<1>12. CASE Note \/ Close
  <2>1. process' \in [Processes -> Step]
      BY <1>12, <1>p, GoesFacts DEF Note, Close, RegistriesType, Stages, Stepped
  <2> QED BY <1>0, <1>12, <2>1 DEF Note, Close, RegistriesType, files, histories, bounds
<1>13. CASE Printed \/ Shutdown
  <2>1. process' \in [Processes -> Step]
      BY <1>13, <1>p, GoesFacts, StopIs DEF Printed, Shutdown, RegistriesType, Stages, Stepped
  <2> QED BY <1>0, <1>13, <2>1 DEF Printed, Shutdown, RegistriesType, files, histories, bounds
<1>14. ASSUME NEW p \in Processes, Kill(p) PROVE RegistriesType'
  <2>1. process' \in [Processes -> Step]
      BY <1>14, StopIs DEF Kill, RegistriesType, Stepped
  <2>2. kills' \in 0..MaxKills /\ waiting' \subseteq [user : Users, role : Role]
      BY <1>14, LimitsAssumption DEF Kill, RegistriesType
  <2> QED BY <1>0, <1>14, <2>1, <2>2 DEF Kill, RegistriesType, files, histories
<1> QED BY <1>1, <1>2, <1>3, <1>4, <1>5, <1>6, <1>7, <1>8, <1>9, <1>10, <1>11, <1>12, <1>13, <1>14
        DEF RegistriesNext

-----------------------------------------------------------------------------
(* The wizard.                                                              *)

LEMMA OrderFacts ==
    /\ Len(Order) = 5 /\ DOMAIN Order = 1..5
    /\ Order[1] = ".env" /\ Order[2] = "config.json" /\ Order[3] = "mcp-config.json"
    /\ Order[4] = "users.json" /\ Order[5] = "project.json"
    /\ \A i, j \in 1..5 : Order[i] = Order[j] => i = j
    /\ \A i \in 1..5 : Order[i] \in Targets
    /\ \A t \in Targets : \E i \in 1..5 : t = Order[i]
    /\ "users.json" \in Targets /\ "project.json" \in Targets
<1>1. /\ Len(Order) = 5 /\ DOMAIN Order = 1..5
      /\ Order[1] = ".env" /\ Order[2] = "config.json" /\ Order[3] = "mcp-config.json"
      /\ Order[4] = "users.json" /\ Order[5] = "project.json"
    BY DEF Order
<1>2. \A i \in 1..5 : i = 1 \/ i = 2 \/ i = 3 \/ i = 4 \/ i = 5
    OBVIOUS
<1>3. \A i, j \in 1..5 : Order[i] = Order[j] => i = j
    BY <1>1, <1>2
<1>4. Targets = {Order[i] : i \in 1..5}
    BY <1>1 DEF Targets
<1>5. Order[4] \in Targets /\ Order[5] \in Targets
    BY <1>4
<1> QED BY <1>1, <1>3, <1>4, <1>5

LEMMA MarkFacts ==
    /\ Absent # Theirs /\ Absent \notin Nat /\ Theirs \notin Nat
    /\ Absent \in Value /\ Theirs \in Value /\ \A n \in 1..MaxSetups : n \in Value
    /\ MaxSetups \in Nat
BY NamesAssumption, SetupsAssumption DEF Value

WizardOK == SetupType /\ SetupInv

\* The wizard that is none, or waits for its answers, has nothing to keep.
LEMMA NoSetupFacts ==
    /\ NoSetup \in Wizard /\ NoSetup.at = "none"
    /\ [NoSetup EXCEPT !.at = "asking"] \in Wizard
    /\ [NoSetup EXCEPT !.at = "asking"].at = "asking"
    /\ [NoSetup EXCEPT !.at = "asking"].created = 0
    /\ [NoSetup EXCEPT !.at = "asking"].updated = {}
    /\ ~[NoSetup EXCEPT !.at = "asking"].stuck
<1>1. 0 \in 0..Len(Order)
    BY OrderFacts
<1>2. NoSetup \in Wizard /\ NoSetup.at = "none" /\ NoSetup.created = 0 /\ NoSetup.updated = {}
    BY <1>1 DEF NoSetup, Wizard
<1>3. NoSetup.stuck = FALSE
    BY DEF NoSetup
<1>4. [NoSetup EXCEPT !.at = "asking"] \in Wizard
    BY <1>2 DEF Wizard
<1>5. /\ [NoSetup EXCEPT !.at = "asking"].at = "asking"
      /\ [NoSetup EXCEPT !.at = "asking"].created = NoSetup.created
      /\ [NoSetup EXCEPT !.at = "asking"].updated = NoSetup.updated
      /\ [NoSetup EXCEPT !.at = "asking"].stuck = NoSetup.stuck
    BY <1>2 DEF Wizard
<1> QED BY <1>2, <1>3, <1>4, <1>5

LEMMA NoSetupKeeps ==
    ASSUME SetupType', setup' = NoSetup PROVE SetupInv'
BY NoSetupFacts DEF SetupInv, SetupAllOrNothing

LEMMA RunKeeps ==
    ASSUME WizardOK, Run \/ Cancel \/ Confirm PROVE WizardOK'
<1>1. CASE Run
  <2>1. SetupType'
      BY <1>1, NoSetupFacts DEF Run, WizardOK, SetupType
  <2>2. SetupInv'
      BY <1>1, NoSetupFacts DEF Run, SetupInv, SetupAllOrNothing
  <2> QED BY <2>1, <2>2 DEF WizardOK
<1>2. CASE Cancel
  <2>1. SetupType'
      BY <1>2, NoSetupFacts DEF Cancel, WizardOK, SetupType
  <2> QED BY <1>2, <2>1, NoSetupKeeps DEF WizardOK, Cancel
<1>3. CASE Confirm
  <2>0. /\ setup.at = "asking" /\ setup \in Wizard /\ UNCHANGED <<disk, keyring, changes>>
        /\ setup.created = 0 /\ setup.updated = {} /\ ~setup.stuck
        /\ setups + changes < MaxSetups /\ setups \in Nat /\ changes \in Nat
        /\ keyring \in Keyring
    <3>1. /\ setup.at = "asking" /\ setup \in Wizard /\ UNCHANGED <<disk, keyring, changes>>
          /\ setups \in Nat /\ changes \in Nat /\ keyring \in Keyring
        BY <1>3 DEF Confirm, WizardOK, SetupType
    <3>2. setup = [NoSetup EXCEPT !.at = "asking"] /\ setups + changes < MaxSetups
        BY <3>1 DEF WizardOK, SetupInv
    <3> QED BY <3>1, <3>2, NoSetupFacts
  <2>1. CASE Conflicts # {}
    <3>1. SetupType' /\ setup' = NoSetup
        BY <1>3, <2>1, NoSetupFacts DEF Confirm, WizardOK, SetupType
    <3> QED BY <3>1, NoSetupKeeps DEF WizardOK
  <2>2. CASE Conflicts = {}
    <3>1. PICK wanted \in {{}, Names} :
              setup' = [setup EXCEPT !.at = "writing", !.secrets = wanted, !.first = keyring]
        BY <1>3, <2>2 DEF Confirm
    <3>2. setups' = setups + 1
        BY <1>3, <2>2 DEF Confirm
    <3>3. /\ setup' \in Wizard /\ setup'.at = "writing" /\ setup'.first = keyring
          /\ setup'.created = 0 /\ setup'.updated = {} /\ ~setup'.stuck
        BY <2>0, <3>1 DEF Wizard
    <3>4. SetupType'
        BY <2>0, <3>2, <3>3, SetupsAssumption DEF SetupType, WizardOK
    <3>5. \A i \in DOMAIN Order : disk[Order[i]] = Absent
        BY <2>2, OrderFacts DEF Conflicts
    <3>6. \A i \in DOMAIN Order : disk'[Order[i]] = IF i <= setup'.created THEN setups' ELSE Absent
        BY <2>0, <3>3, <3>5, OrderFacts
    <3>7. keyring' = [n \in Names |-> IF n \in setup'.updated THEN setups' ELSE setup'.first[n]]
        BY <2>0, <3>3 DEF Keyring
    <3>8. SetupInv'
        BY <2>0, <3>2, <3>3, <3>6, <3>7 DEF SetupInv, SetupAllOrNothing
    <3> QED BY <3>4, <3>8 DEF WizardOK
  <2> QED BY <2>1, <2>2
<1> QED BY <1>1, <1>2, <1>3

\* What SetupInv says of a wizard that writes.
LEMMA WritingFacts ==
    ASSUME WizardOK, setup.at \in {"writing", "storing", "restoring", "cleaning"}
    PROVE  /\ setup \in Wizard /\ setups \in 1..MaxSetups /\ setups \in Nat /\ setups # Absent
           /\ setup.first \in Keyring /\ keyring \in Keyring /\ disk \in [Targets -> Value]
           /\ \A i \in 1..5 : disk[Order[i]] = IF i <= setup.created THEN setups ELSE Absent
           /\ setup.created \in 0..5
           /\ setup.at \in {"storing", "restoring"} =>
                  setup.created = 5 /\ setup.previous = setup.first
           /\ setup.at = "writing" => setup.updated = {}
           /\ setup.at \in {"writing", "storing"} => ~setup.stuck
           /\ setup.at \in {"writing", "storing", "restoring"} /\ ~setup.stuck =>
                  \A n \in Names : keyring[n] = IF n \in setup.updated THEN setups ELSE setup.first[n]
           /\ setup.at = "cleaning" /\ ~setup.stuck => keyring = setup.first
<1>1. /\ setup \in Wizard /\ setups \in 0..MaxSetups /\ keyring \in Keyring
      /\ disk \in [Targets -> Value] /\ setup.created \in 0..5
    BY OrderFacts DEF WizardOK, SetupType, Wizard
<1>2. SetupInv
    BY DEF WizardOK
<1>3. setups # 0 /\ setup.first \in Keyring
      /\ \A i \in 1..5 : disk[Order[i]] = IF i <= setup.created THEN setups ELSE Absent
    BY <1>2, OrderFacts DEF SetupInv
<1>4. setups \in 1..MaxSetups /\ setups \in Nat /\ setups # Absent
    BY <1>1, <1>3, MarkFacts
<1>5. /\ setup.at \in {"storing", "restoring"} => setup.created = 5 /\ setup.previous = setup.first
      /\ setup.at = "writing" => setup.updated = {}
      /\ setup.at \in {"writing", "storing"} => ~setup.stuck
      /\ setup.at = "cleaning" /\ ~setup.stuck => keyring = setup.first
    BY <1>2 DEF SetupInv
<1>6. setup.at \in {"writing", "storing", "restoring"} /\ ~setup.stuck =>
          \A n \in Names : keyring[n] = IF n \in setup.updated THEN setups ELSE setup.first[n]
    BY <1>2 DEF SetupInv
<1> QED BY <1>1, <1>3, <1>4, <1>5, <1>6

LEMMA WriteTargetKeeps ==
    ASSUME WizardOK, WriteTarget \/ WriteFails PROVE WizardOK'
<1>0. setup.at = "writing" /\ setup.created < 5 /\ UNCHANGED <<keyring, setups, changes>>
    BY OrderFacts DEF WriteTarget, WriteFails
<1> DEFINE c == setup.created
<1>f. /\ setup \in Wizard /\ setups \in 1..MaxSetups /\ setups \in Nat /\ setups # Absent
      /\ setup.first \in Keyring /\ keyring \in Keyring /\ disk \in [Targets -> Value]
      /\ \A i \in 1..5 : disk[Order[i]] = IF i <= c THEN setups ELSE Absent
      /\ c \in 0..5 /\ setup.updated = {} /\ ~setup.stuck
      /\ \A n \in Names : keyring[n] = setup.first[n]
    BY <1>0, WritingFacts
<1>k. keyring = setup.first /\ keyring = [n \in Names |-> setup.first[n]]
    BY <1>f DEF Keyring
<1>1. CASE WriteTarget
  <2>1. /\ disk' = [disk EXCEPT ![Order[c + 1]] = setups] /\ setup' = [setup EXCEPT !.created = @ + 1]
      BY <1>1 DEF WriteTarget
  <2>2. /\ setup' \in Wizard /\ setup'.at = "writing" /\ setup'.created = c + 1
        /\ setup'.first = setup.first /\ setup'.updated = {} /\ ~setup'.stuck
      BY <1>0, <1>f, <2>1, OrderFacts DEF Wizard
  <2>3. disk' \in [Targets -> Value]
      BY <1>0, <1>f, <2>1, MarkFacts
  <2>4. \A i \in 1..5 : disk'[Order[i]] = IF i <= c + 1 THEN setups ELSE Absent
      BY <1>0, <1>f, <2>1, OrderFacts
  <2>5. SetupType'
      BY <1>0, <2>2, <2>3 DEF WizardOK, SetupType
  <2>6. keyring' = [n \in Names |-> IF n \in setup'.updated THEN setups' ELSE setup'.first[n]]
      BY <1>0, <1>k, <2>2
  <2>7. SetupInv'
      BY <1>0, <1>f, <2>2, <2>4, <2>6, OrderFacts DEF SetupInv, SetupAllOrNothing
  <2> QED BY <2>5, <2>7 DEF WizardOK
<1>2. CASE WriteFails
  <2>1. setup' = [setup EXCEPT !.at = "cleaning"] /\ disk' = disk
      BY <1>2 DEF WriteFails, Moves
  <2>2. /\ setup' \in Wizard /\ setup'.at = "cleaning" /\ setup'.created = c
        /\ setup'.first = setup.first /\ setup'.updated = {} /\ ~setup'.stuck
      BY <1>f, <2>1 DEF Wizard
  <2>3. SetupType'
      BY <1>0, <2>1, <2>2 DEF WizardOK, SetupType
  <2>4. SetupInv'
      BY <1>0, <1>f, <1>k, <2>1, <2>2, OrderFacts DEF SetupInv, SetupAllOrNothing
  <2> QED BY <2>3, <2>4 DEF WizardOK
<1> QED BY <1>1, <1>2

LEMMA CleanKeeps ==
    ASSUME WizardOK, Clean PROVE WizardOK'
<1>0. setup.at = "cleaning" /\ UNCHANGED <<keyring, setups, changes>>
    BY DEF Clean
<1> DEFINE c == setup.created
<1>f. /\ setup \in Wizard /\ setups \in 1..MaxSetups /\ setups \in Nat /\ setups # Absent
      /\ disk \in [Targets -> Value] /\ keyring \in Keyring /\ setup.first \in Keyring
      /\ \A i \in 1..5 : disk[Order[i]] = IF i <= c THEN setups ELSE Absent
      /\ c \in 0..5 /\ (~setup.stuck => keyring = setup.first)
    BY <1>0, WritingFacts
<1>1. PICK kept \in {{}} \cup {{t} : t \in Created} :
        /\ disk' = [t \in Targets |-> IF t \in Created \ kept THEN Absent ELSE disk[t]]
        /\ setup' = [NoSetup EXCEPT !.at = "failed", !.first = setup.first,
                                    !.stuck = setup.stuck \/ kept # {}]
    BY DEF Clean
<1>2. /\ setup' \in Wizard /\ setup'.at = "failed" /\ setup'.first = setup.first
      /\ setup'.stuck = (setup.stuck \/ kept # {})
  <2>1. (setup.stuck \/ kept # {}) \in BOOLEAN
      OBVIOUS
  <2> QED BY <1>1, <1>f, NoSetupFacts DEF Wizard
<1>3. disk' \in [Targets -> Value]
    BY <1>1, <1>f, MarkFacts
<1>4. ASSUME ~setup'.stuck, NEW t \in Targets PROVE disk'[t] # setups
  <2>1. kept = {}
      BY <1>2, <1>4
  <2>2. PICK i \in 1..5 : t = Order[i]
      BY OrderFacts
  <2>3. i <= c => t \in Created
      BY <1>f, <2>2 DEF Created
  <2>4. disk'[t] = Absent
      BY <1>1, <1>f, <2>1, <2>2, <2>3
  <2> QED BY <2>4, <1>f
<1>5. SetupType'
    BY <1>0, <1>2, <1>3 DEF WizardOK, SetupType
<1>6. SetupInv'
    BY <1>0, <1>f, <1>2, <1>4 DEF SetupInv, SetupAllOrNothing
<1> QED BY <1>5, <1>6 DEF WizardOK

\* Once every target is written: the keyring.
LEMMA ReadSecretsKeeps ==
    ASSUME WizardOK, ReadSecrets PROVE WizardOK'
<1>0. setup.at = "writing" /\ setup.created = 5 /\ UNCHANGED <<disk, keyring, setups, changes>>
    BY OrderFacts DEF ReadSecrets
<1>f. /\ setup \in Wizard /\ setups \in 1..MaxSetups /\ setups \in Nat /\ setups # Absent
      /\ setup.first \in Keyring /\ keyring \in Keyring
      /\ \A i \in 1..5 : disk[Order[i]] = setups
      /\ setup.updated = {} /\ ~setup.stuck
      /\ \A n \in Names : keyring[n] = setup.first[n]
    BY <1>0, WritingFacts
<1>k. keyring = setup.first /\ keyring = [n \in Names |-> setup.first[n]]
    BY <1>f DEF Keyring
<1>1. CASE setup' = [setup EXCEPT !.at = Ends, !.previous = keyring]
  <2>1. /\ setup' \in Wizard /\ setup'.at \in {"done", "storing"} /\ setup'.created = 5
        /\ setup'.first = setup.first /\ setup'.updated = {} /\ ~setup'.stuck
        /\ setup'.previous = setup.first
      BY <1>0, <1>f, <1>k, <1>1 DEF Wizard, Ends
  <2>2. \A t \in Targets : disk[t] = setups
      BY <1>f, OrderFacts
  <2>3. SetupType'
      BY <1>0, <2>1 DEF WizardOK, SetupType
  <2>4. keyring' = [n \in Names |-> IF n \in setup'.updated THEN setups' ELSE setup'.first[n]]
      BY <1>0, <1>k, <2>1
  <2>5. SetupInv'
      BY <1>0, <1>f, <2>1, <2>2, <2>4, OrderFacts DEF SetupInv, SetupAllOrNothing
  <2> QED BY <2>3, <2>5 DEF WizardOK
<1>2. CASE Moves("cleaning")
  <2>1. /\ setup' \in Wizard /\ setup'.at = "cleaning" /\ setup'.created = 5
        /\ setup'.first = setup.first /\ ~setup'.stuck
      BY <1>0, <1>f, <1>2 DEF Moves, Wizard
  <2>2. SetupType'
      BY <1>0, <2>1 DEF WizardOK, SetupType
  <2>3. SetupInv'
      BY <1>0, <1>f, <1>k, <2>1, OrderFacts DEF SetupInv, SetupAllOrNothing
  <2> QED BY <2>2, <2>3 DEF WizardOK
<1> QED BY <1>1, <1>2 DEF ReadSecrets

LEMMA StoreSecretKeeps ==
    ASSUME WizardOK, NEW n \in Names, StoreSecret(n) PROVE WizardOK'
<1>0. /\ setup.at = "storing" /\ n \in setup.secrets /\ UNCHANGED <<disk, setups, changes>>
      /\ keyring' = [keyring EXCEPT ![n] = setups]
    BY DEF StoreSecret
<1> DEFINE at == IF setup.secrets = {n} THEN "done" ELSE "storing"
<1>f. /\ setup \in Wizard /\ setups \in 1..MaxSetups /\ setups \in Nat /\ setups # Absent
      /\ setup.first \in Keyring /\ keyring \in Keyring /\ setup.created = 5
      /\ setup.previous = setup.first /\ ~setup.stuck
      /\ \A i \in 1..5 : disk[Order[i]] = IF i <= setup.created THEN setups ELSE Absent
      /\ \A m \in Names : keyring[m] = IF m \in setup.updated THEN setups ELSE setup.first[m]
    BY <1>0, WritingFacts
<1>1. /\ setup' \in Wizard /\ setup'.created = 5 /\ ~setup'.stuck
      /\ setup'.at \in {"done", "storing"}
      /\ setup'.first = setup.first /\ setup'.previous = setup.first
      /\ setup'.updated = setup.updated \cup {n}
  <2>1. setup' = [setup EXCEPT !.secrets = setup.secrets \ {n}, !.updated = setup.updated \cup {n},
                               !.at = at]
      BY <1>0 DEF StoreSecret
  <2> QED BY <1>f, <2>1 DEF Wizard
<1>2. keyring' \in Keyring
    BY <1>0, <1>f, MarkFacts DEF Keyring
<1>3. \A m \in Names : keyring'[m] = IF m \in setup'.updated THEN setups ELSE setup'.first[m]
    BY <1>0, <1>f, <1>1 DEF Keyring
<1>4. keyring' = [m \in Names |-> IF m \in setup'.updated THEN setups ELSE setup'.first[m]]
    BY <1>2, <1>3 DEF Keyring
<1>5. \A i \in 1..5 : disk[Order[i]] = setups
    BY <1>f
<1>6. \A t \in Targets : disk[t] = setups
    BY <1>5, OrderFacts
<1>7. SetupType'
    BY <1>0, <1>1, <1>2 DEF WizardOK, SetupType
<1>8. SetupInv'
  <2>1. CASE setup'.at = "done"
      BY <2>1, <1>0, <1>1, <1>3, <1>6 DEF SetupInv, SetupAllOrNothing
  <2>2. CASE setup'.at = "storing"
    <3>1. \A i \in DOMAIN Order : disk'[Order[i]] = IF i <= setup'.created THEN setups' ELSE Absent
        BY <1>0, <1>f, <1>1, OrderFacts
    <3>2. setups' # 0 /\ setup'.first \in Keyring
        BY <1>0, <1>f, <1>1
    <3>3. keyring' = [m \in Names |-> IF m \in setup'.updated THEN setups' ELSE setup'.first[m]]
        BY <1>0, <1>4
    <3> QED BY <2>2, <1>1, <3>1, <3>2, <3>3 DEF SetupInv, SetupAllOrNothing
  <2> QED BY <2>1, <2>2, <1>1
<1> QED BY <1>7, <1>8 DEF WizardOK

LEMMA RestoreSecretKeeps ==
    ASSUME WizardOK, NEW n \in Names, RestoreSecret(n) PROVE WizardOK'
<1>0. /\ setup.at = "restoring" /\ n \in setup.updated /\ UNCHANGED <<disk, setups, changes>>
    BY DEF RestoreSecret
<1>f. /\ setup \in Wizard /\ setups \in 1..MaxSetups /\ setups \in Nat /\ setups # Absent
      /\ setup.first \in Keyring /\ keyring \in Keyring /\ setup.created = 5
      /\ setup.previous = setup.first
      /\ \A i \in 1..5 : disk[Order[i]] = IF i <= setup.created THEN setups ELSE Absent
      /\ ~setup.stuck =>
             \A m \in Names : keyring[m] = IF m \in setup.updated THEN setups ELSE setup.first[m]
    BY <1>0, WritingFacts
<1>1. CASE /\ keyring' = [keyring EXCEPT ![n] = setup.previous[n]]
           /\ setup' = [setup EXCEPT !.updated = @ \ {n}]
  <2>1. /\ setup' \in Wizard /\ setup'.at = "restoring" /\ setup'.created = 5
        /\ setup'.first = setup.first /\ setup'.previous = setup.first
        /\ setup'.stuck = setup.stuck /\ setup'.updated = setup.updated \ {n}
      BY <1>0, <1>f, <1>1 DEF Wizard
  <2>2. keyring' \in Keyring
      BY <1>f, <1>1 DEF Keyring
  <2>3. ~setup.stuck => \A m \in Names :
            keyring'[m] = IF m \in setup'.updated THEN setups ELSE setup'.first[m]
      BY <1>f, <1>1, <2>1 DEF Keyring
  <2>4. ~setup.stuck =>
            keyring' = [m \in Names |-> IF m \in setup'.updated THEN setups ELSE setup'.first[m]]
      BY <2>2, <2>3 DEF Keyring
  <2>5. SetupType'
      BY <1>0, <2>1, <2>2 DEF WizardOK, SetupType
  <2>6. SetupInv'
      BY <1>0, <1>f, <2>1, <2>4, OrderFacts DEF SetupInv, SetupAllOrNothing
  <2> QED BY <2>5, <2>6 DEF WizardOK
<1>2. CASE setup' = [setup EXCEPT !.updated = @ \ {n}, !.stuck = TRUE] /\ keyring' = keyring
  <2>1. /\ setup' \in Wizard /\ setup'.at = "restoring" /\ setup'.created = 5
        /\ setup'.first = setup.first /\ setup'.previous = setup.first /\ setup'.stuck
      BY <1>0, <1>f, <1>2 DEF Wizard
  <2>2. SetupType'
      BY <1>0, <1>2, <2>1 DEF WizardOK, SetupType
  <2>3. SetupInv'
      BY <1>0, <1>f, <1>2, <2>1, OrderFacts DEF SetupInv, SetupAllOrNothing
  <2> QED BY <2>2, <2>3 DEF WizardOK
<1> QED BY <1>1, <1>2 DEF RestoreSecret

\* An error of the keyring, or the end of putting it back.
LEMMA StoreFailsKeeps ==
    ASSUME WizardOK, StoreFails \/ Restored PROVE WizardOK'
<1> DEFINE at == IF setup.at = "storing" THEN "restoring" ELSE "cleaning"
<1>0. /\ UNCHANGED <<disk, keyring, setups, changes>> /\ setup' = [setup EXCEPT !.at = at]
      /\ setup.at = "storing" \/ (setup.at = "restoring" /\ setup.updated = {})
    BY DEF StoreFails, Restored, Moves
<1>f. /\ setup \in Wizard /\ setups \in 1..MaxSetups /\ setups \in Nat /\ setups # Absent
      /\ setup.first \in Keyring /\ keyring \in Keyring /\ setup.created = 5
      /\ setup.previous = setup.first
      /\ \A i \in 1..5 : disk[Order[i]] = IF i <= setup.created THEN setups ELSE Absent
      /\ ~setup.stuck =>
             \A m \in Names : keyring[m] = IF m \in setup.updated THEN setups ELSE setup.first[m]
    BY <1>0, WritingFacts
<1>1. /\ setup' \in Wizard /\ setup'.at = at /\ setup'.created = 5
      /\ setup'.first = setup.first /\ setup'.previous = setup.first
      /\ setup'.stuck = setup.stuck /\ setup'.updated = setup.updated
    BY <1>0, <1>f DEF Wizard
<1>2. ~setup.stuck =>
          keyring = [m \in Names |-> IF m \in setup.updated THEN setups ELSE setup.first[m]]
    BY <1>f DEF Keyring
<1>3. ~setup.stuck /\ setup.updated = {} => keyring = setup.first
    BY <1>f DEF Keyring
<1>4. SetupType'
    BY <1>0, <1>1 DEF WizardOK, SetupType
<1>5. SetupInv'
    BY <1>0, <1>f, <1>1, <1>2, <1>3, OrderFacts DEF SetupInv, SetupAllOrNothing
<1> QED BY <1>4, <1>5 DEF WizardOK

\* The wizard is gone, and the operator may change what it left.
LEMMA LeaveKeeps ==
    ASSUME WizardOK, Interrupt \/ MoveAway \/ \E n \in Names : SetSecret(n) \/ DeleteSecret(n)
    PROVE  WizardOK'
<1>0. setup' = NoSetup /\ NoSetup \in Wizard /\ setups' = setups
    BY NoSetupFacts DEF Interrupt, MoveAway, SetSecret, DeleteSecret, Change
<1>1. CASE Interrupt
    BY <1>0, <1>1, NoSetupKeeps DEF Interrupt, WizardOK, SetupType
<1>2. CASE MoveAway
  <2>1. disk' \in [Targets -> Value] /\ keyring' = keyring
      BY <1>2, MarkFacts DEF MoveAway
  <2>2. changes' \in 0..MaxSetups
      BY <1>2, SetupsAssumption DEF MoveAway, Change, WizardOK, SetupType
  <2>3. SetupType'
      BY <1>0, <2>1, <2>2 DEF WizardOK, SetupType
  <2> QED BY <1>0, <2>3, NoSetupKeeps DEF WizardOK
<1>3. ASSUME NEW n \in Names, SetSecret(n) \/ DeleteSecret(n) PROVE WizardOK'
  <2>1. keyring' \in Keyring /\ disk' = disk
      BY <1>3, MarkFacts DEF SetSecret, DeleteSecret, WizardOK, SetupType, Keyring
  <2>2. changes' \in 0..MaxSetups
      BY <1>3, SetupsAssumption DEF SetSecret, DeleteSecret, Change, WizardOK, SetupType
  <2>3. SetupType'
      BY <1>0, <2>1, <2>2 DEF WizardOK, SetupType
  <2> QED BY <1>0, <2>3, NoSetupKeeps DEF WizardOK
<1> QED BY <1>1, <1>2, <1>3

\* Every step of the wizard, and of the operator, keeps what the wizard relies on.
LEMMA WizardKeeps ==
    ASSUME WizardOK, SetupNext PROVE WizardOK'
BY RunKeeps, WriteTargetKeeps, CleanKeeps, ReadSecretsKeeps, StoreSecretKeeps,
   RestoreSecretKeeps, StoreFailsKeeps, LeaveKeeps DEF SetupNext

Working == {"writing", "storing", "restoring", "cleaning"}

\* What a step of the wizard or the operator does to the files.
WritesOne ==
    /\ setup.at = "writing" /\ setup'.at = "writing" /\ setup.created \in 0..4
    /\ setup'.created = setup.created + 1
    /\ disk' = [disk EXCEPT ![Order[setup.created + 1]] = setups]
    /\ disk[Order[setup.created + 1]] = Absent /\ setups # Absent
Begins == disk' = disk /\ setup'.at = "writing" /\ setup'.created = 0
GoesOn ==
    /\ disk' = disk /\ setup.at \in Working /\ setup'.created = setup.created
    /\ setup'.at \in Working \cup {"done"} /\ (setup'.at = "done" => setup.created = 5)
Leaves == disk' = disk /\ setup'.at \in {"none", "asking"}
Cleans ==
    /\ setup.at = "cleaning" /\ setup'.at = "failed"
    /\ \A i \in 1..5 : \/ disk'[Order[i]] = disk[Order[i]]
                       \/ /\ i <= setup.created /\ disk[Order[i]] = setups
                          /\ disk'[Order[i]] = Absent
MovesAway == changes' # changes /\ setup'.at = "none" /\ disk' = [t \in Targets |-> Absent]

LEMMA SetupMoves ==
    ASSUME WizardOK, SetupNext
    PROVE  WritesOne \/ Begins \/ GoesOn \/ Leaves \/ Cleans \/ MovesAway
<1>0. setup \in Wizard
    BY DEF WizardOK, SetupType
<1>1. CASE Run \/ Cancel \/ Interrupt \/ \E n \in Names : SetSecret(n) \/ DeleteSecret(n)
    BY <1>1, NoSetupFacts DEF Run, Cancel, Interrupt, SetSecret, DeleteSecret, Change, Leaves
<1>2. CASE Confirm
  <2>1. CASE Conflicts # {}
      BY <1>2, <2>1, NoSetupFacts DEF Confirm, Leaves
  <2>2. CASE Conflicts = {}
    <3>1. PICK wanted \in {{}, Names} :
              setup' = [setup EXCEPT !.at = "writing", !.secrets = wanted, !.first = keyring]
        BY <1>2, <2>2 DEF Confirm
    <3>2. setup = [NoSetup EXCEPT !.at = "asking"]
        BY <1>2 DEF Confirm, WizardOK, SetupInv
    <3>3. setup.created = 0
        BY <3>2, NoSetupFacts
    <3>4. setup'.at = "writing" /\ setup'.created = setup.created
        BY <1>0, <3>1 DEF Wizard
    <3> QED BY <1>2, <3>3, <3>4 DEF Confirm, Begins
  <2> QED BY <2>1, <2>2
<1>3. CASE WriteTarget
  <2>1. /\ setup.at = "writing" /\ setup.created < 5 /\ setup' = [setup EXCEPT !.created = @ + 1]
        /\ disk' = [disk EXCEPT ![Order[setup.created + 1]] = setups]
      BY <1>3, OrderFacts DEF WriteTarget
  <2>2. /\ setup.created \in 0..5 /\ setups # Absent
        /\ \A i \in 1..5 : disk[Order[i]] = IF i <= setup.created THEN setups ELSE Absent
      BY <2>1, WritingFacts
  <2>3. disk[Order[setup.created + 1]] = Absent /\ setup.created \in 0..4
      BY <2>1, <2>2
  <2>4. setup'.at = "writing" /\ setup'.created = setup.created + 1
      BY <1>0, <2>1 DEF Wizard
  <2> QED BY <2>1, <2>2, <2>3, <2>4 DEF WritesOne
<1>4. CASE WriteFails \/ ReadSecrets \/ StoreFails \/ Restored
  <2>1. disk' = disk /\ setup.at \in Working
      BY <1>4 DEF WriteFails, ReadSecrets, StoreFails, Restored, Working
  <2>2. /\ setup'.created = setup.created
        /\ setup'.at \in Working \cup {"done"} /\ (setup'.at = "done" => setup.created = 5)
      BY <1>0, <1>4, OrderFacts
         DEF WriteFails, ReadSecrets, StoreFails, Restored, Moves, Ends, Working, Wizard
  <2> QED BY <2>1, <2>2 DEF GoesOn
<1>5. ASSUME NEW n \in Names, StoreSecret(n) \/ RestoreSecret(n) PROVE GoesOn
  <2>1. disk' = disk /\ setup.at \in {"storing", "restoring"}
      BY <1>5 DEF StoreSecret, RestoreSecret
  <2>2. setup.created = 5
      BY <2>1, WritingFacts
  <2>3. setup'.created = setup.created /\ setup'.at \in Working \cup {"done"}
    <3>1. CASE StoreSecret(n)
      <4>1. setup' = [setup EXCEPT !.secrets = setup.secrets \ {n},
                                   !.updated = setup.updated \cup {n},
                                   !.at = IF setup.secrets = {n} THEN "done" ELSE setup.at]
          BY <3>1 DEF StoreSecret
      <4> QED BY <1>0, <2>1, <4>1 DEF Working, Wizard
    <3>2. CASE RestoreSecret(n)
        BY <1>0, <2>1, <3>2 DEF RestoreSecret, Working, Wizard
    <3> QED BY <1>5, <3>1, <3>2
  <2> QED BY <2>1, <2>2, <2>3 DEF GoesOn, Working
<1>6. CASE Clean
  <2>1. PICK kept \in {{}} \cup {{t} : t \in Created} :
          /\ disk' = [t \in Targets |-> IF t \in Created \ kept THEN Absent ELSE disk[t]]
          /\ setup' = [NoSetup EXCEPT !.at = "failed", !.first = setup.first,
                                      !.stuck = setup.stuck \/ kept # {}]
      BY <1>6 DEF Clean
  <2>2. setup.at = "cleaning" /\ setup'.at = "failed"
      BY <1>6, <2>1, NoSetupFacts DEF Clean, Wizard
  <2>3. /\ setup.created \in 0..5
        /\ \A i \in 1..5 : disk[Order[i]] = IF i <= setup.created THEN setups ELSE Absent
      BY <2>2, WritingFacts
  <2>4. \A i \in 1..5 : Order[i] \in Created => i <= setup.created
      BY <2>3, OrderFacts DEF Created
  <2> QED BY <2>1, <2>2, <2>3, <2>4, OrderFacts DEF Cleans
<1>7. CASE MoveAway
  <2>1. changes' # changes
      BY <1>7 DEF MoveAway, Change, WizardOK, SetupType
  <2> QED BY <1>7, <2>1, NoSetupFacts DEF MoveAway, Change, MovesAway
<1> QED BY <1>1, <1>2, <1>3, <1>4, <1>5, <1>6, <1>7 DEF SetupNext

-----------------------------------------------------------------------------
(* Both together.                                                           *)

LEMMA RegistriesKeepParts ==
    ASSUME RegistriesType, Parts, setup' = setup, RegistriesNext PROVE Parts'
<1>1. (\E u \in Users : Authenticate(u)) => Parts'
    BY SameKeepsParts DEF Authenticate, files, histories
<1>2. Call => Parts'
    BY BeginKeepsParts, AskedAreJobs DEF Call
<1> QED BY <1>1, <1>2, StartKeepsParts, OpenKeepsParts, CreateUsersKeepsParts, LoadUsersKeepsParts,
           WriteUsersKeepsParts, CheckOwnerKeepsParts, LoadProjectKeepsParts,
           WriteProjectKeepsParts, CloseKeepsParts, EndKeepsParts DEF RegistriesNext

\* Where nothing runs, something has to be started first.
LEMMA QuietStarts ==
    ASSUME RegistriesType, Quiet, RegistriesNext PROVE commands' # commands
<1>0. process["server"].at = "stopped" /\ process["command"].at = "stopped"
      /\ \A p \in Processes : process[p].at = "stopped"
    BY DEF Quiet, Processes
<1>1. Serve \/ Command => commands' # commands
    BY DEF Serve, Command, Start, RegistriesType
<1>2. ~\E p \in Processes : Open(p) \/ CreateUsers(p) \/ LoadUsers(p) \/ WriteUsers(p) \/ Kill(p)
    BY <1>0 DEF Open, CreateUsers, LoadUsers, WriteUsers, Kill
<1>3. ~CheckOwner /\ ~LoadProject /\ ~WriteProject /\ ~Note /\ ~Close /\ ~Printed /\ ~Shutdown
    BY <1>0 DEF CheckOwner, LoadProject, WriteProject, Note, Close, Printed, Shutdown
<1>4. ~(\E u \in Users : Authenticate(u)) /\ ~Call
    BY <1>0 DEF Authenticate, Serving, Call, Begin
<1> QED BY <1>1, <1>2, <1>3, <1>4 DEF RegistriesNext

\* The registries take no file away, and change only a project that is enabled.
LEMMA RegistriesFiles ==
    ASSUME RegistriesType, Parts, RegistriesNext
    PROVE  /\ users # Missing => users' # Missing
           /\ project # Missing => project' # Missing
           /\ project' = project \/ project = Missing \/ project.enabled
<1>1. users' = users \/ users' \in UsersFile
  <2>1. \A p \in Processes :
            /\ CreateUsers(p) => users' \in UsersFile
            /\ WriteUsers(p) => users' \in UsersFile
            /\ Open(p) \/ LoadUsers(p) \/ Kill(p) => users' = users
      BY UsersFacts DEF CreateUsers, WriteUsers, Parts, PlacesInv, Open, LoadUsers, Kill, files
  <2>2. Serve \/ Command \/ CheckOwner \/ Call \/ (\E u \in Users : Authenticate(u)) => users' = users
      BY DEF Serve, Command, Start, CheckOwner, Call, Begin, Authenticate, files
  <2>3. LoadProject \/ WriteProject \/ Note \/ Close \/ Printed \/ Shutdown => users' = users
      BY DEF LoadProject, WriteProject, Note, Close, Printed, Shutdown, files
  <2> QED BY <2>1, <2>2, <2>3 DEF RegistriesNext
<1>2. project' = project \/ WriteProject
  <2>1. \A p \in Processes :
            Open(p) \/ CreateUsers(p) \/ LoadUsers(p) \/ WriteUsers(p) \/ Kill(p) => project' = project
      BY DEF CreateUsers, WriteUsers, Open, LoadUsers, Kill, files
  <2>2. Serve \/ Command \/ CheckOwner \/ Call \/ (\E u \in Users : Authenticate(u)) =>
            project' = project
      BY DEF Serve, Command, Start, CheckOwner, Call, Begin, Authenticate, files
  <2>3. LoadProject \/ Note \/ Close \/ Printed \/ Shutdown => project' = project
      BY DEF LoadProject, Note, Close, Printed, Shutdown, files
  <2> QED BY <2>1, <2>2, <2>3 DEF RegistriesNext
<1>3. WriteProject => project' \in ProjectDefinition /\ (project # Missing => project.enabled)
    BY DEF WriteProject, Parts, PlacesInv, ProjectInv, Processes
<1> QED BY <1>1, <1>2, <1>3, UsersFacts

LEMMA RegistriesStepKeeps ==
    ASSUME InstallationInv, RegistriesStep PROVE InstallationInv'
<1>0. /\ RegistriesType /\ SetupType /\ LinksInv /\ Parts /\ Sound(log, recorded)
      /\ SetupInv /\ GeneratedInv
    BY AuditIsSound DEF InstallationInv, TypeOK, Parts
<1>1. /\ RegistriesNext /\ (commands' # commands => MayStart)
      /\ disk' = [[disk EXCEPT
             !["users.json"] = IF users = Missing /\ users' # Missing THEN Theirs ELSE @] EXCEPT
             !["project.json"] = IF project = Missing /\ project' # Missing THEN Theirs ELSE @]
      /\ UNCHANGED <<keyring, setup, setups, changes>>
    BY DEF RegistriesStep
<1>2. RegistriesType' /\ Parts' /\ Sound(log, recorded)'
    BY <1>0, <1>1, RegistriesKeepType, RegistriesKeepParts, RegistriesKeepSound
<1>3. /\ users # Missing => users' # Missing
      /\ project # Missing => project' # Missing
    BY <1>0, <1>1, RegistriesFiles
<1>4. disk \in [Targets -> Value]
    BY <1>0 DEF SetupType
<1>5. /\ disk' \in [Targets -> Value]
      /\ disk'["users.json"] = IF users = Missing /\ users' # Missing THEN Theirs ELSE disk["users.json"]
      /\ disk'["project.json"] = IF project = Missing /\ project' # Missing THEN Theirs
                                 ELSE disk["project.json"]
      /\ \A t \in Targets \ {"users.json", "project.json"} : disk'[t] = disk[t]
    BY <1>1, <1>4, OrderFacts, MarkFacts
<1>6. LinksInv'
    BY <1>0, <1>3, <1>5, MarkFacts DEF LinksInv
<1>7. SetupType'
    BY <1>0, <1>1, <1>5 DEF SetupType
<1>8. AtRest
    BY <1>0, <1>1, QuietStarts DEF GeneratedInv, MayStart
<1>9. \A t \in Targets : disk'[t] = disk[t] \/ (disk[t] = Absent /\ disk'[t] = Theirs)
    BY <1>0, <1>5 DEF LinksInv
<1>10. SetupInv'
  <2>1. setups \in Nat
      BY <1>0 DEF SetupType
  <2>2. SetupAllOrNothing
      BY <1>0 DEF SetupInv
  <2>3. SetupAllOrNothing'
      BY <1>1, <1>9, <2>1, <2>2, MarkFacts DEF SetupAllOrNothing
  <2> QED BY <1>1, <1>8, <2>3 DEF AtRest, SetupInv
<1>11. GeneratedInv'
    BY <1>1, <1>8 DEF AtRest, GeneratedInv
<1>12. AuditInv'
  <2>1. RegistriesType' => (AuditInv' <=> Sound(log, recorded)')
      BY AuditIsSound, PTL
  <2> QED BY <1>2, <2>1
<1> QED BY <1>2, <1>6, <1>7, <1>10, <1>11, <1>12 DEF InstallationInv, TypeOK, Parts

LEMMA GeneratedFacts ==
    ASSUME RegistriesType, NEW owner \in Users
    PROVE  /\ GeneratedUsers(owner) \in UsersFile /\ HasOwner(GeneratedUsers(owner))
           /\ GeneratedProject \in ProjectDefinition /\ GeneratedProject.enabled
<1> DEFINE first == [role |-> "owner", token |-> issued + 1, enabled |-> TRUE]
<1>1. first \in UserRecord /\ first # None
  <2>1. issued + 1 \in Nat
      BY DEF RegistriesType
  <2>2. first \in UserRecord
      BY <2>1 DEF UserRecord, Role
  <2> QED BY <2>2, MarksAssumption
<1>2. first.enabled /\ first.role = "owner"
    OBVIOUS
<1>3. GeneratedUsers(owner) = [NoUsers EXCEPT ![owner] = first]
    BY DEF GeneratedUsers
<1> HIDE DEF first
<1>4. GeneratedUsers(owner) \in UsersFile /\ GeneratedUsers(owner)[owner] = first
    BY <1>1, <1>3, UsersFacts DEF UsersFile
<1>5. HasOwner(GeneratedUsers(owner))
    BY <1>1, <1>2, <1>4 DEF HasOwner, EnabledOwners
<1>6. GeneratedProject \in ProjectDefinition
    BY DEF GeneratedProject, ProjectDefinition, Role
<1>7. GeneratedProject.enabled
    BY DEF GeneratedProject
<1> QED BY <1>4, <1>5, <1>6, <1>7

\* What SetupStep makes of the users and the project: they follow their files.
LEMMA Follows ==
    ASSUME RegistriesType, LinksInv, SetupStep
    PROVE  /\ disk'["users.json"] = disk["users.json"] => users' = users
           /\ disk'["project.json"] = disk["project.json"] => project' = project
           /\ disk'["users.json"] = Absent <=> users' = Missing
           /\ disk'["project.json"] = Absent <=> project' = Missing
           /\ users' \in UsersFile \cup {Missing}
           /\ project' \in ProjectDefinition \cup {Missing}
           /\ disk'["users.json"] \notin {Absent, disk["users.json"]} => HasOwner(Listed(users'))
           /\ disk'["project.json"] \notin {Absent, disk["project.json"]} => project'.enabled
<1>1. PICK owner \in Users :
          users' = IF disk'["users.json"] = disk["users.json"] THEN users
                   ELSE IF disk'["users.json"] = Absent THEN Missing
                   ELSE GeneratedUsers(owner)
    BY DEF SetupStep
<1>2. project' = IF disk'["project.json"] = disk["project.json"] THEN project
                 ELSE IF disk'["project.json"] = Absent THEN Missing
                 ELSE GeneratedProject
    BY DEF SetupStep
<1>3. users \in UsersFile \cup {Missing} /\ project \in ProjectDefinition \cup {Missing}
    BY DEF RegistriesType
<1> QED BY <1>1, <1>2, <1>3, GeneratedFacts, UsersFacts DEF LinksInv

LEMMA SetupStepKeeps ==
    ASSUME InstallationInv, SetupStep PROVE InstallationInv'
<1>0. /\ RegistriesType /\ SetupType /\ LinksInv /\ Parts /\ Sound(log, recorded)
      /\ SetupInv /\ GeneratedInv /\ WizardOK
    BY AuditIsSound DEF InstallationInv, TypeOK, Parts, WizardOK
<1>1. /\ SetupNext /\ Quiet /\ UNCHANGED <<audit, process, waiting, raced, void, bounds>>
      /\ issued' = IF users' \notin {users, Missing} THEN issued + 1 ELSE issued
      /\ meant' = [users |-> IF users' = users THEN meant.users ELSE Listed(users'),
                   project |-> IF project' = project THEN meant.project ELSE project']
    BY DEF SetupStep
<1>2. WizardOK' /\ SetupType' /\ SetupInv'
    BY <1>0, <1>1, WizardKeeps DEF WizardOK
<1>3. WritesOne \/ Begins \/ GoesOn \/ Leaves \/ Cleans \/ MovesAway
    BY <1>0, <1>1, SetupMoves
<1>4. /\ disk'["users.json"] = disk["users.json"] => users' = users
      /\ disk'["project.json"] = disk["project.json"] => project' = project
      /\ disk'["users.json"] = Absent <=> users' = Missing
      /\ disk'["project.json"] = Absent <=> project' = Missing
      /\ users' \in UsersFile \cup {Missing}
      /\ project' \in ProjectDefinition \cup {Missing}
      /\ disk'["users.json"] \notin {Absent, disk["users.json"]} => HasOwner(Listed(users'))
      /\ disk'["project.json"] \notin {Absent, disk["project.json"]} => project'.enabled
    BY <1>0, Follows
<1>5. LinksInv'
    BY <1>4 DEF LinksInv
<1>6. Listed(users') \in UsersFile
    BY <1>4, UsersFacts
<1>7. RegistriesType'
  <2>1. meant' \in [users : UsersFile, project : ProjectDefinition \cup {Missing}]
      BY <1>0, <1>1, <1>4, <1>6 DEF RegistriesType
  <2>2. issued' \in Nat
      BY <1>0, <1>1 DEF RegistriesType
  <2> QED BY <1>0, <1>1, <1>4, <2>1, <2>2 DEF RegistriesType, audit, bounds
<1>8. \A p \in Processes : process'[p].at = "stopped"
    BY <1>1 DEF Quiet
<1>s. process'["server"].at = "stopped" /\ process'["command"].at = "stopped"
    BY <1>8 DEF Processes
<1>9. setup'.at = "done" => HasOwner(Listed(users'))
  <2> SUFFICES ASSUME setup'.at = "done" PROVE HasOwner(Listed(users'))
      OBVIOUS
  <2>1. GoesOn /\ setup.created = 5
      BY <1>3 DEF WritesOne, Begins, GoesOn, Leaves, Cleans, MovesAway
  <2>2. users' = users
      BY <1>4, <2>1 DEF GoesOn
  <2>3. HasOwner(Listed(users))
      BY <1>0, <2>1 DEF GeneratedInv, GoesOn, Working
  <2> QED BY <2>2, <2>3
<1>10. Parts'
  <2>1. PlacesInv' /\ ProjectInv'
      BY <1>8, <1>s DEF PlacesInv, ProjectInv
  <2>2. ~Serving'
      BY <1>s DEF Serving
  <2>3. OwnersInv'
    <3>1. HasOwner(Listed(users))' <=> HasOwner(Listed(users'))
        BY DEF HasOwner, EnabledOwners, Listed
    <3> QED BY <1>8, <1>9, <1>s, <2>2, <3>1 DEF OwnersInv, LastOwnerStays, HasOwner
  <2>4. MeantInv
      BY <1>0 DEF Parts
  <2>5. meant'.project = project'
      BY <1>1, <2>4 DEF MeantInv
  <2>6. ~raced' => meant'.users = Listed(users)'
      BY <1>1, <2>4 DEF MeantInv, Listed
  <2>7. MeantInv'
      BY <1>8, <1>s, <2>5, <2>6 DEF MeantInv
  <2> QED BY <2>1, <2>3, <2>7 DEF Parts
<1>11. GeneratedInv'
  <2>1. Quiet'
      BY <1>8 DEF Quiet
  <2>2. HasOwner(Listed(users))' <=> HasOwner(Listed(users'))
      BY DEF HasOwner, EnabledOwners, Listed
  <2>3. ASSUME setup'.at \in Working
        PROVE  /\ setup'.created >= 4 => HasOwner(Listed(users'))
               /\ setup'.created = 5 => project' # Missing /\ project'.enabled
    <3>1. WritesOne \/ Begins \/ GoesOn
        BY <1>3, <2>3 DEF Leaves, Cleans, MovesAway, Working
    <3>2. setup.at \in Working =>
              /\ setup.created >= 4 => HasOwner(Listed(users))
              /\ setup.created = 5 => project # Missing /\ project.enabled
        BY <1>0 DEF GeneratedInv, Working
    <3>3. CASE Begins
        BY <3>3 DEF Begins
    <3>4. CASE GoesOn
      <4>1. users' = users /\ project' = project
          BY <1>4, <3>4 DEF GoesOn
      <4> QED BY <3>2, <3>4, <4>1 DEF GoesOn
    <3>5. CASE WritesOne
      <4> DEFINE c == setup.created
      <4>1. c \in 0..4 /\ setup'.created = c + 1 /\ setup.at \in Working
          BY <3>5 DEF WritesOne, Working
      <4>2. disk \in [Targets -> Value]
          BY <1>0 DEF SetupType
      <4>3. /\ disk'[Order[c + 1]] = setups /\ disk[Order[c + 1]] = Absent /\ setups # Absent
            /\ \A i \in 1..5 : i # c + 1 => disk'[Order[i]] = disk[Order[i]]
          BY <3>5, <4>1, <4>2, OrderFacts DEF WritesOne
      <4>4. CASE c = 3
        <5>1. HasOwner(Listed(users'))
            BY <1>4, <4>3, <4>4, OrderFacts
        <5> QED BY <4>1, <4>4, <5>1
      <4>5. CASE c = 4
        <5>1. users' = users /\ HasOwner(Listed(users))
            BY <1>4, <3>2, <4>1, <4>3, <4>5, OrderFacts
        <5>2. project' # Missing /\ project'.enabled
            BY <1>4, <4>3, <4>5, OrderFacts
        <5> QED BY <5>1, <5>2
      <4> QED BY <4>1, <4>4, <4>5
    <3> QED BY <3>1, <3>3, <3>4, <3>5
  <2> QED BY <2>1, <2>2, <2>3 DEF GeneratedInv, Working
<1>12. AuditInv'
  <2>1. RegistriesType' => (AuditInv' <=> Sound(log, recorded)')
      BY AuditIsSound, PTL
  <2>2. Sound(log, recorded)'
      BY <1>0, <1>1, SameKeepsSound
  <2> QED BY <1>7, <2>1, <2>2
<1> QED BY <1>2, <1>5, <1>7, <1>10, <1>11, <1>12 DEF InstallationInv, TypeOK, Parts

LEMMA InitKeeps ==
    ASSUME Init PROVE InstallationInv
<1>0. /\ users \in InitialUsers /\ project \in InitialProjects
      /\ log = NoLog /\ recorded = 0 /\ process = [p \in Processes |-> Stopped]
      /\ waiting = {} /\ issued = 0 /\ raced = FALSE /\ void = {}
      /\ meant = [users |-> Listed(users), project |-> project]
      /\ calls = 0 /\ commands = 0 /\ kills = 0
      /\ disk \in {[t \in Targets |-> Absent], [t \in Targets |-> Theirs],
                   [t \in Targets |-> IF t = "mcp-config.json" THEN Theirs ELSE Absent]}
      /\ keyring = [n \in Names |-> Theirs] /\ setup = NoSetup /\ setups = 0 /\ changes = 0
      /\ LinksInv
    BY DEF Init, RegistriesInit, SetupInit, LinksInv
<1>1. users \in UsersFile \cup {Missing}
    BY <1>0 DEF InitialUsers, UsersFile, UserRecord, Role
<1>2. project \in ProjectDefinition \cup {Missing}
  <2>1. [enabled |-> TRUE, members |-> [u \in Users |-> None], exposed_folders |-> {},
         allowed_tools |-> {"*"}] \in ProjectDefinition
      BY DEF ProjectDefinition
  <2> QED BY <1>0, <2>1 DEF InitialProjects
<1>3. process \in [Processes -> Step]
  <2>1. Stopped \in Step
      BY DEF Stopped, Step, Stages
  <2> QED BY <1>0, <2>1
<1>4. Listed(users) \in UsersFile
    BY <1>1, UsersFacts
<1>5. RegistriesType
  <2>1. log \in [Files -> SUBSET Nat]
      BY <1>0 DEF NoLog
  <2>2. meant \in [users : UsersFile, project : ProjectDefinition \cup {Missing}]
      BY <1>0, <1>2, <1>4
  <2>3. calls \in 0..MaxCalls /\ commands \in 0..MaxCommands /\ kills \in 0..MaxKills
      BY <1>0, LimitsAssumption
  <2>4. recorded \in Nat /\ issued \in Nat /\ raced \in BOOLEAN
      BY <1>0
  <2>5. waiting \subseteq [user : Users, role : Role] /\ void \subseteq [user : Users, token : Nat]
      BY <1>0
  <2> QED BY <1>1, <1>2, <1>3, <2>1, <2>2, <2>3, <2>4, <2>5 DEF RegistriesType
<1>6. SetupType
  <2>1. disk \in [Targets -> Value] /\ keyring \in Keyring
      BY <1>0, MarkFacts DEF Keyring
  <2> QED BY <1>0, <2>1, NoSetupFacts, SetupsAssumption DEF SetupType
<1>7. Sound(log, recorded)
  <2>1. \A i \in Files : log[i] = {}
      BY <1>0 DEF NoLog
  <2> QED BY <1>0, <1>5, <2>1 DEF Sound, In, RegistriesType
<1>8. \A p \in Processes : process[p].at = "stopped"
    BY <1>0 DEF Stopped
<1>s. process["server"].at = "stopped" /\ process["command"].at = "stopped"
    BY <1>8 DEF Processes
<1>9. PlacesInv /\ ProjectInv
    BY <1>8, <1>s DEF PlacesInv, ProjectInv
<1>10. OwnersInv
    BY <1>0, <1>8, <1>s, NoSetupFacts DEF OwnersInv, LastOwnerStays, Serving
<1>11. MeantInv
    BY <1>0, <1>8, <1>s DEF MeantInv
<1>12. SetupInv
    BY <1>0, NoSetupFacts DEF SetupInv, SetupAllOrNothing
<1>13. GeneratedInv
    BY <1>0, NoSetupFacts DEF GeneratedInv, AtRest
<1>14. AuditInv
    BY <1>5, <1>7, AuditIsSound
<1> QED BY <1>0, <1>5, <1>6, <1>9, <1>10, <1>11, <1>12, <1>13, <1>14 DEF InstallationInv, TypeOK

\* A step that changes nothing.
LEMMA StutterKeeps ==
    ASSUME InstallationInv, UNCHANGED vars PROVE InstallationInv'
<1>0. /\ RegistriesType /\ SetupType /\ LinksInv /\ Parts /\ Sound(log, recorded)
      /\ SetupInv /\ GeneratedInv
    BY AuditIsSound DEF InstallationInv, TypeOK, Parts
<1>1. UNCHANGED <<users, project, meant, raced, setup, process, disk, keyring, setups, changes>>
    BY DEF vars, registryVars, setupVars, files, histories
<1>2. RegistriesType'
    BY <1>0 DEF vars, registryVars, RegistriesType, files, audit, histories, bounds
<1>3. SetupType' /\ LinksInv'
    BY <1>0, <1>1 DEF SetupType, LinksInv
<1>4. Parts'
    BY <1>0, <1>1, SameKeepsParts
<1>5. SetupInv'
    BY <1>0, <1>1 DEF SetupInv, SetupAllOrNothing
<1>6. GeneratedInv'
    BY <1>0, <1>1 DEF GeneratedInv, AtRest, Quiet, HasOwner, EnabledOwners, Listed
<1>7. AuditInv'
  <2>1. RegistriesType' => (AuditInv' <=> Sound(log, recorded)')
      BY AuditIsSound, PTL
  <2>2. Sound(log, recorded)'
      BY <1>0, SameKeepsSound DEF vars, registryVars
  <2> QED BY <1>2, <2>1, <2>2
<1> QED BY <1>2, <1>3, <1>4, <1>5, <1>6, <1>7 DEF InstallationInv, TypeOK, Parts

\* InstallationInv holds of every behaviour of the installation.
THEOREM InstallationInvHolds == Spec => []InstallationInv
<1>1. Init => InstallationInv
    BY InitKeeps
<1>2. InstallationInv /\ [Next]_vars => InstallationInv'
    BY RegistriesStepKeeps, SetupStepKeeps, StutterKeeps DEF Next
<1> QED BY <1>1, <1>2, PTL DEF Spec

-----------------------------------------------------------------------------
(* What follows.                                                            *)

\* Every variable keeps the type its code gives it.
THEOREM TypesHold == Spec => []TypeOK
<1>1. InstallationInv => TypeOK
    BY DEF InstallationInv
<1> QED BY <1>1, InstallationInvHolds, PTL

\* The audit log's files hold the last so many records, whole and in order, wherever
\* a rotation was cut off, for every size of the log and number of backups.
THEOREM AuditHolds == Spec => []AuditIsContiguous
<1>1. InstallationInv => AuditIsContiguous
    BY DEF InstallationInv, AuditInv
<1> QED BY <1>1, InstallationInvHolds, PTL

\* A server in use, and a finished setup, have an enabled owner.
THEOREM OwnerHolds == Spec => []LastOwnerStays
<1>1. InstallationInv => LastOwnerStays
    BY DEF InstallationInv, OwnersInv
<1> QED BY <1>1, InstallationInvHolds, PTL

\* No change of the users or the project is lost unless two processes raced.
THEOREM ChangesHold == Spec => []NothingIsLost
<1>1. InstallationInv => NothingIsLost
  <2> SUFFICES ASSUME InstallationInv, ~raced
               PROVE  meant = [users |-> Listed(users), project |-> project]
      BY DEF NothingIsLost
  <2>1. meant \in [users : UsersFile, project : ProjectDefinition \cup {Missing}]
      BY DEF InstallationInv, TypeOK, RegistriesType
  <2>2. meant.project = project /\ meant.users = Listed(users)
      BY DEF InstallationInv, MeantInv
  <2> QED BY <2>1, <2>2
<1> QED BY <1>1, InstallationInvHolds, PTL

\* A setup that failed left nothing behind, and one that succeeded left everything.
THEOREM SetupHolds == Spec => []SetupAllOrNothing
<1>1. InstallationInv => SetupAllOrNothing
    BY DEF InstallationInv, SetupInv
<1> QED BY <1>1, InstallationInvHolds, PTL

\* No tool changes a project that is disabled.
THEOREM DisabledStaysFrozen == Spec => DisabledIsFrozen
<1>1. ASSUME InstallationInv, [Next]_vars, project # Missing, ~project.enabled, changes' = changes
      PROVE  project' = project
  <2>0. RegistriesType /\ LinksInv /\ Parts /\ WizardOK /\ GeneratedInv
      BY <1>1 DEF InstallationInv, TypeOK, Parts, WizardOK
  <2>1. CASE RegistriesStep
      BY <2>0, <2>1, <1>1, RegistriesFiles DEF RegistriesStep
  <2>2. CASE SetupStep
    <3>1. WritesOne \/ Begins \/ GoesOn \/ Leaves \/ Cleans \/ MovesAway
        BY <2>0, <2>2, SetupMoves DEF SetupStep
    <3>2. disk["project.json"] # Absent
        BY <2>0, <1>1 DEF LinksInv
    <3>3. disk \in [Targets -> Value]
        BY <2>0 DEF WizardOK, SetupType
    <3>4. disk'["project.json"] = disk["project.json"]
      <4>1. CASE WritesOne
          BY <4>1, <3>2, <3>3, OrderFacts DEF WritesOne
      <4>2. CASE Cleans
        <5>1. setup.created \in 0..5
            BY <4>2, <2>0, WritingFacts DEF Cleans
        <5>2. setup.created # 5
            BY <4>2, <2>0, <1>1 DEF Cleans, GeneratedInv
        <5> QED BY <4>2, <5>1, <5>2, OrderFacts DEF Cleans
      <4> QED BY <3>1, <4>1, <4>2, <1>1 DEF Begins, GoesOn, Leaves, MovesAway
    <3> QED BY <2>0, <2>2, <3>4, Follows
  <2>3. CASE UNCHANGED vars
      BY <2>3 DEF vars, registryVars, files
  <2> QED BY <2>1, <2>2, <2>3, <1>1 DEF Next
<1>2. InstallationInv /\ [Next]_vars =>
          [project # Missing /\ ~project.enabled /\ changes' = changes => project' = project]_vars
    BY <1>1
<1> QED BY <1>2, InstallationInvHolds, PTL DEF Spec, DisabledIsFrozen

\* Setup changes and removes no file but its own.
THEOREM SetupNeverOverwrites == Spec => NeverOverwrites
<1>1. ASSUME InstallationInv, [Next]_vars, changes' = changes, NEW t \in Targets
      PROVE  \/ disk'[t] = disk[t]
             \/ disk[t] = Absent
             \/ disk[t] = setups /\ setup.at = "cleaning"
  <2>0. RegistriesType /\ LinksInv /\ Parts /\ WizardOK
      BY <1>1 DEF InstallationInv, TypeOK, Parts, WizardOK
  <2>1. disk \in [Targets -> Value]
      BY <2>0 DEF WizardOK, SetupType
  <2>2. CASE RegistriesStep
      BY <2>0, <2>1, <2>2, OrderFacts DEF RegistriesStep, LinksInv
  <2>3. CASE SetupStep
    <3>1. WritesOne \/ Begins \/ GoesOn \/ Leaves \/ Cleans \/ MovesAway
        BY <2>0, <2>3, SetupMoves DEF SetupStep
    <3>2. PICK i \in 1..5 : t = Order[i]
        BY OrderFacts
    <3>3. CASE WritesOne
        BY <2>1, <3>2, <3>3, OrderFacts DEF WritesOne
    <3>4. CASE Cleans
        BY <3>2, <3>4 DEF Cleans
    <3> QED BY <3>1, <3>3, <3>4, <1>1 DEF Begins, GoesOn, Leaves, MovesAway
  <2>4. CASE UNCHANGED vars
      BY <2>4 DEF vars, setupVars
  <2> QED BY <2>2, <2>3, <2>4, <1>1 DEF Next
<1>2. InstallationInv /\ [Next]_vars =>
          [changes' = changes =>
              \A t \in Targets :
                  \/ disk'[t] = disk[t]
                  \/ disk[t] = Absent
                  \/ disk[t] = setups /\ setup.at = "cleaning"]_vars
    BY <1>1
<1> QED BY <1>2, InstallationInvHolds, PTL DEF Spec, NeverOverwrites

=============================================================================
