----------------------------- MODULE Startup_proofs -----------------------------
(***************************************************************************)
(* Proofs about Startup, for any number of clients, any ini files, trees   *)
(* and disks: who is served, what the settings come to, and what an answer *)
(* 0 of the server says.                                                   *)
(***************************************************************************)
EXTENDS Startup, SequenceTheorems, TLAPS

-----------------------------------------------------------------------------
(* Settings.                                                               *)

(* The sections that main.cpp reads. *)
Sections == {"server", "local"}

(* What an ini file may say. *)
Values == UNION {{m.ini[at] : at \in DOMAIN m.ini} : m \in Machines}

(* A lookup returns its default, a value of that key, or nothing, and       *)
(* leaves a deeper group behind.                                            *)
LEMMA GetTypes ==
  ASSUME NEW m \in Machines, NEW g \in Seq(Sections), NEW section \in Sections,
         NEW key, NEW default
  PROVE  LET got == Get(m.ini, g, section, key, default)
         IN  /\ got.group \in Seq(Sections) /\ got.group # <<>>
             /\ \/ got.value \in {default, Invalid}
                \/ \E at \in DOMAIN m.ini : at[2] = key /\ got.value = m.ini[at]
<1> DEFINE outer == Append(g, section)
           inner == Append(outer, section)
<1>1. outer \in Seq(Sections) /\ outer # <<>> /\ inner \in Seq(Sections) /\ inner # <<>>
  <2>1. outer \in Seq(Sections) /\ outer # <<>>
    BY AppendProperties
  <2> HIDE DEF outer
  <2> QED
    BY <2>1, AppendProperties
<1> HIDE DEF outer, inner
<1>2. \/ Lookup(m.ini, inner, key) = Invalid
      \/ \E at \in DOMAIN m.ini : at[2] = key /\ Lookup(m.ini, inner, key) = m.ini[at]
  <2>1. <<inner, key>>[2] = key
    OBVIOUS
  <2> QED
    BY <2>1 DEF Lookup
<1>3. Get(m.ini, g, section, key, default) =
        IF key \in ChildKeys(m.ini, outer)
        THEN [value |-> Lookup(m.ini, inner, key), group |-> inner]
        ELSE [value |-> default, group |-> outer]
  BY DEF Get, outer, inner
<1>4. CASE key \in ChildKeys(m.ini, outer)
  BY <1>1, <1>2, <1>3, <1>4
<1>5. CASE key \notin ChildKeys(m.ini, outer)
  BY <1>1, <1>3, <1>5
<1> QED
  BY <1>4, <1>5

(* From a group on, nothing of an ini file without nested groups is found. *)
LEMMA FlatGet ==
  ASSUME NEW ini, Flat(ini), NEW g \in Seq(Sections), g # <<>>,
         NEW section \in Sections, NEW key, NEW default
  PROVE  Get(ini, g, section, key, default).value = default
<1> DEFINE outer == Append(g, section)
<1>1. Len(outer) # 1
  BY EmptySeq
<1>2. <<outer, key>>[1] = outer
  OBVIOUS
<1> HIDE DEF outer
<1>3. key \notin ChildKeys(ini, outer)
  BY <1>1, <1>2 DEF Flat, ChildKeys
<1>4. Get(ini, g, section, key, default) = [value |-> default, group |-> outer]
  BY <1>3 DEF Get, outer
<1> QED
  BY <1>4

(* The first lookup finds that the key is there, and then not its value. *)
LEMMA FirstGet ==
  ASSUME NEW ini, Flat(ini), NEW section \in Sections, NEW key, NEW default
  PROVE  Get(ini, <<>>, section, key, default).value =
           IF <<<<section>>, key>> \in DOMAIN ini THEN Invalid ELSE default
<1> DEFINE outer == Append(<<>>, section)
           inner == Append(outer, section)
<1>1. outer = <<section>> /\ Len(inner) # 1
  OBVIOUS
<1>2. <<inner, key>>[1] = inner /\ <<outer, key>>[2] = key
  OBVIOUS
<1> HIDE DEF outer, inner
<1>3. Lookup(ini, inner, key) = Invalid
  BY <1>1, <1>2 DEF Flat, Lookup
<1>4. key \in ChildKeys(ini, outer) <=> <<<<section>>, key>> \in DOMAIN ini
  BY <1>1, <1>2 DEF ChildKeys
<1>5. Get(ini, <<>>, section, key, default) =
        IF key \in ChildKeys(ini, outer)
        THEN [value |-> Lookup(ini, inner, key), group |-> inner]
        ELSE [value |-> default, group |-> outer]
  BY DEF Get, outer, inner
<1>6. CASE key \in ChildKeys(ini, outer)
  BY <1>3, <1>4, <1>5, <1>6
<1>7. CASE key \notin ChildKeys(ini, outer)
  BY <1>4, <1>5, <1>7
<1> QED
  BY <1>6, <1>7

-----------------------------------------------------------------------------
(* Types.                                                                  *)

Hosts == Values \cup {Invalid, NoHost, DefaultHost}
Ports == Values \cup {Invalid, 0, DefaultPort}

Configs == [host : Hosts, port : Ports, path : CleanPaths, strict : BOOLEAN]

Answers == {NoCode, 0, 4, 5, 403}

StartupTypes ==
  /\ stage \in [Clients -> Stages] /\ machine \in [Clients -> Machines]
  /\ group \in [Clients -> Seq(Sections)] /\ config \in [Clients -> Configs]
  /\ sent = [c \in Clients |-> sent[c]] /\ code \in [Clients -> Answers]
  /\ request \in [Clients -> {NoRequest, "token_login", "directory_verification"}]
  /\ queue \in Seq(Clients) /\ serving \in Clients \cup {Nobody}
  /\ raised \subseteq Clients /\ server \in {"starting", "listening", "exited"}

LEMMA EmptyIsClean == <<>> \in CleanPaths
<1>1. <<>> \in Seq(STRING) /\ DOMAIN <<>> = {}
  BY EmptySeq
<1> QED
  BY <1>1 DEF CleanPaths

(* Setting one field of a configuration. *)
LEMMA SetField ==
  ASSUME NEW r \in Configs, NEW v
  PROVE  /\ LET s == [r EXCEPT !["host"] = v]
             IN  /\ v \in Hosts => s \in Configs
                 /\ s.host = v /\ s.port = r.port /\ s.path = r.path /\ s.strict = r.strict
         /\ LET s == [r EXCEPT !["port"] = v]
             IN  /\ v \in Ports => s \in Configs
                 /\ s.host = r.host /\ s.port = v /\ s.path = r.path /\ s.strict = r.strict
         /\ LET s == [r EXCEPT !["path"] = v]
             IN  /\ v \in CleanPaths => s \in Configs
                 /\ s.host = r.host /\ s.port = r.port /\ s.path = v /\ s.strict = r.strict
         /\ LET s == [r EXCEPT !["strict"] = v]
             IN  /\ v \in BOOLEAN => s \in Configs
                 /\ s.host = r.host /\ s.port = r.port /\ s.path = r.path /\ s.strict = v
BY DEF Configs

(* A lookup of _main(): it replaces the configuration and the group. *)
Reads(c, from, next, r, g) ==
  /\ stage[c] = from /\ GoTo(c, next) /\ OnlySetup
  /\ r \in Configs /\ config' = [config EXCEPT ![c] = r]
  /\ g \in Seq(Sections) \ {<<>>} /\ group' = [group EXCEPT ![c] = g]

LEMMA ReadHost ==
  ASSUME StartupTypes, NEW c \in Clients,
         ReadSetting(c, "server", "host", DefaultHost, NoHost, "port")
  PROVE  \E r, g :
           /\ Reads(c, "host", "port", r, g)
           /\ r.port = config[c].port /\ r.path = config[c].path /\ r.strict = config[c].strict
           /\ group[c] = <<>> /\ Flat(machine[c].ini) => r.host = Defaulted(c).host
<1>0. StartupTypes /\ config[c] \in Configs
  BY DEF StartupTypes
<1>m. PICK m \in Machines : m = machine[c]
  BY DEF StartupTypes
<1>g. PICK g \in Seq(Sections) : g = group[c]
  BY DEF StartupTypes
<1> DEFINE got == Get(m.ini, g, "server", "host", DefaultHost)
           v   == IF got.value = Invalid THEN NoHost ELSE got.value
           r   == [config[c] EXCEPT !["host"] = v]
<1>1. /\ got.group \in Seq(Sections) /\ got.group # <<>>
      /\ \/ got.value \in {DefaultHost, Invalid}
         \/ \E at \in DOMAIN m.ini : at[2] = "host" /\ got.value = m.ini[at]
  BY GetTypes DEF Sections
<1>2. v \in Hosts
  <2>1. \A at \in DOMAIN m.ini : m.ini[at] \in Values
    BY DEF Values
  <2> QED
    BY <1>1, <2>1 DEF Hosts
<1>3. g = <<>> /\ Flat(m.ini) => v = Defaulted(c).host
  BY <1>m, FirstGet, MachinesAssumption DEF Defaulted, Sections
<1>4. /\ stage[c] = "host" /\ GoTo(c, "port") /\ OnlySetup
      /\ group' = [group EXCEPT ![c] = got.group]
      /\ config' = [config EXCEPT ![c] = r]
  BY <1>0, <1>m, <1>g DEF ReadSetting, StartupTypes
<1> HIDE DEF got, v
<1>5. r \in Configs /\ r.host = v /\ r.port = config[c].port /\ r.path = config[c].path /\ r.strict = config[c].strict
  BY <1>0, <1>2, SetField
<1> HIDE DEF r
<1> QED
  BY <1>m, <1>g, <1>1, <1>3, <1>4, <1>5 DEF Reads

LEMMA ReadPort ==
  ASSUME StartupTypes, NEW c \in Clients,
         ReadSetting(c, "server", "port", DefaultPort, 0, "path")
  PROVE  \E r, g :
           /\ Reads(c, "port", "path", r, g)
           /\ r.host = config[c].host /\ r.path = config[c].path /\ r.strict = config[c].strict
           /\ group[c] # <<>> /\ Flat(machine[c].ini) => r.port = DefaultPort
<1>0. StartupTypes /\ config[c] \in Configs
  BY DEF StartupTypes
<1>m. PICK m \in Machines : m = machine[c]
  BY DEF StartupTypes
<1>g. PICK g \in Seq(Sections) : g = group[c]
  BY DEF StartupTypes
<1> DEFINE got == Get(m.ini, g, "server", "port", DefaultPort)
           v   == IF got.value = Invalid THEN 0 ELSE got.value
           r   == [config[c] EXCEPT !["port"] = v]
<1>1. /\ got.group \in Seq(Sections) /\ got.group # <<>>
      /\ \/ got.value \in {DefaultPort, Invalid}
         \/ \E at \in DOMAIN m.ini : at[2] = "port" /\ got.value = m.ini[at]
  BY GetTypes DEF Sections
<1>2. v \in Ports
  <2>1. \A at \in DOMAIN m.ini : m.ini[at] \in Values
    BY DEF Values
  <2> QED
    BY <1>1, <2>1 DEF Ports
<1>3. g # <<>> /\ Flat(m.ini) => v = DefaultPort
  BY FlatGet, MachinesAssumption DEF Sections
<1>4. /\ stage[c] = "port" /\ GoTo(c, "path") /\ OnlySetup
      /\ group' = [group EXCEPT ![c] = got.group]
      /\ config' = [config EXCEPT ![c] = r]
  BY <1>0, <1>m, <1>g DEF ReadSetting, StartupTypes
<1> HIDE DEF got, v
<1>5. r \in Configs /\ r.port = v /\ r.host = config[c].host /\ r.path = config[c].path /\ r.strict = config[c].strict
  BY <1>0, <1>2, SetField
<1> HIDE DEF r
<1> QED
  BY <1>m, <1>g, <1>1, <1>3, <1>4, <1>5 DEF Reads

LEMMA ReadPath ==
  ASSUME StartupTypes, NEW c \in Clients,
         ReadSetting(c, "local", "path", Invalid, <<>>, "strict")
  PROVE  \E r, g :
           /\ Reads(c, "path", "strict", r, g)
           /\ r.host = config[c].host /\ r.port = config[c].port /\ r.strict = config[c].strict
           /\ group[c] # <<>> /\ Flat(machine[c].ini) => r.path = <<>>
<1>0. StartupTypes /\ config[c] \in Configs
  BY DEF StartupTypes
<1>m. PICK m \in Machines : m = machine[c]
  BY DEF StartupTypes
<1>g. PICK g \in Seq(Sections) : g = group[c]
  BY DEF StartupTypes
<1> DEFINE got == Get(m.ini, g, "local", "path", Invalid)
           v   == IF got.value = Invalid THEN <<>> ELSE got.value
           r   == [config[c] EXCEPT !["path"] = v]
<1>1. /\ got.group \in Seq(Sections) /\ got.group # <<>>
      /\ \/ got.value \in {Invalid, Invalid}
         \/ \E at \in DOMAIN m.ini : at[2] = "path" /\ got.value = m.ini[at]
  BY GetTypes DEF Sections
<1>2. v \in CleanPaths
  BY <1>1, MachinesAssumption, EmptyIsClean
<1>3. g # <<>> /\ Flat(m.ini) => v = <<>>
  BY FlatGet DEF Sections
<1>4. /\ stage[c] = "path" /\ GoTo(c, "strict") /\ OnlySetup
      /\ group' = [group EXCEPT ![c] = got.group]
      /\ config' = [config EXCEPT ![c] = r]
  BY <1>0, <1>m, <1>g DEF ReadSetting, StartupTypes
<1> HIDE DEF got, v
<1>5. r \in Configs /\ r.path = v /\ r.host = config[c].host /\ r.port = config[c].port /\ r.strict = config[c].strict
  BY <1>0, <1>2, SetField
<1> HIDE DEF r
<1> QED
  BY <1>m, <1>g, <1>1, <1>3, <1>4, <1>5 DEF Reads

LEMMA ReadStrict ==
  ASSUME StartupTypes, NEW c \in Clients,
         ReadSetting(c, "local", "strict", Invalid, FALSE, "connecting")
  PROVE  \E r, g :
           /\ Reads(c, "strict", "connecting", r, g)
           /\ r.host = config[c].host /\ r.port = config[c].port /\ r.path = config[c].path
           /\ group[c] # <<>> /\ Flat(machine[c].ini) => r.strict = FALSE
<1>0. StartupTypes /\ config[c] \in Configs
  BY DEF StartupTypes
<1>m. PICK m \in Machines : m = machine[c]
  BY DEF StartupTypes
<1>g. PICK g \in Seq(Sections) : g = group[c]
  BY DEF StartupTypes
<1> DEFINE got == Get(m.ini, g, "local", "strict", Invalid)
           v   == IF got.value = Invalid THEN FALSE ELSE got.value
           r   == [config[c] EXCEPT !["strict"] = v]
<1>1. /\ got.group \in Seq(Sections) /\ got.group # <<>>
      /\ \/ got.value \in {Invalid, Invalid}
         \/ \E at \in DOMAIN m.ini : at[2] = "strict" /\ got.value = m.ini[at]
  BY GetTypes DEF Sections
<1>2. v \in BOOLEAN
  BY <1>1, MachinesAssumption
<1>3. g # <<>> /\ Flat(m.ini) => v = FALSE
  BY FlatGet DEF Sections
<1>4. /\ stage[c] = "strict" /\ GoTo(c, "connecting") /\ OnlySetup
      /\ group' = [group EXCEPT ![c] = got.group]
      /\ config' = [config EXCEPT ![c] = r]
  BY <1>0, <1>m, <1>g DEF ReadSetting, StartupTypes
<1> HIDE DEF got, v
<1>5. r \in Configs /\ r.strict = v /\ r.host = config[c].host /\ r.port = config[c].port /\ r.path = config[c].path
  BY <1>0, <1>2, SetField
<1> HIDE DEF r
<1> QED
  BY <1>m, <1>g, <1>1, <1>3, <1>4, <1>5 DEF Reads

LEMMA TypesInit == Init => StartupTypes
<1>1. <<>> \in CleanPaths
  BY EmptyIsClean
<1>2. [host |-> Invalid, port |-> Invalid, path |-> <<>>, strict |-> FALSE] \in Configs
  BY <1>1 DEF Configs, Hosts, Ports
<1> QED
  BY <1>2 DEF Init, StartupTypes, Stages, Answers

LEMMA TypesSetup ==
  ASSUME StartupTypes, NEW c \in Clients, TestLogin(c) \/ RunMain(c) \/ Main(c)
  PROVE  StartupTypes'
<1>1. ASSUME NEW next \in Stages, GoTo(c, next), OnlySetup,
             group' \in [Clients -> Seq(Sections)], config' \in [Clients -> Configs]
      PROVE  StartupTypes'
  BY <1>1 DEF GoTo, OnlySetup, StartupTypes, serverVars
<1>2. CASE TestLogin(c)
  <2>1. PICK path \in TestPaths :
          config' = [config EXCEPT ![c] =
            [host |-> DefaultHost, port |-> DefaultPort, path |-> path, strict |-> FALSE]]
    BY <1>2 DEF TestLogin
  <2>2. [host |-> DefaultHost, port |-> DefaultPort, path |-> path, strict |-> FALSE]
          \in Configs
    BY ClientsAssumption DEF Configs, Hosts, Ports
  <2>3. GoTo(c, "connecting") /\ OnlySetup /\ group' = group
    BY <1>2 DEF TestLogin
  <2>4. config' \in [Clients -> Configs]
    BY <2>1, <2>2 DEF StartupTypes
  <2>5. group' \in [Clients -> Seq(Sections)]
    BY <2>3 DEF StartupTypes
  <2> QED
    BY <1>1, <2>3, <2>4, <2>5 DEF Stages
<1>3. CASE RunMain(c)
  BY <1>1, <1>3 DEF RunMain, Stages, StartupTypes
<1>4. CASE Main(c)
  <2>1. PICK from, next, r, g : Reads(c, from, next, r, g)
                               /\ next \in {"port", "path", "strict", "connecting"}
    BY <1>4, ReadHost, ReadPort, ReadPath, ReadStrict DEF Main
  <2>2. GoTo(c, next) /\ OnlySetup
        /\ group' \in [Clients -> Seq(Sections)] /\ config' \in [Clients -> Configs]
    BY <2>1 DEF Reads, StartupTypes
  <2> QED
    BY <1>1, <2>1, <2>2 DEF Stages
<1> QED
  BY <1>2, <1>3, <1>4

-----------------------------------------------------------------------------
(* Who is served.                                                          *)

QueueInv ==
  /\ \A i, j \in DOMAIN queue : queue[i] = queue[j] => i = j
  /\ \A i \in DOMAIN queue : queue[i] # serving /\ Connected(queue[i])
  /\ serving # Nobody => Connected(serving) \/ stage[serving] = "left"

(* A queue of different clients without one of them. *)
LEMMA QueueWithoutOne ==
  ASSUME queue \in Seq(Clients), NEW c,
         \A i, j \in DOMAIN queue : queue[i] = queue[j] => i = j
  PROVE  LET r == QueueWithout(c)
         IN  /\ r \in Seq(Clients)
             /\ \A i, j \in DOMAIN r : r[i] = r[j] => i = j
             /\ \A i \in DOMAIN r : r[i] # c /\ \E k \in DOMAIN queue : r[i] = queue[k]
<1> DEFINE At == {i \in DOMAIN queue : queue[i] = c}
           n  == CHOOSE i \in At : TRUE
           r  == QueueWithout(c)
<1>0. DOMAIN queue = 1 .. Len(queue) /\ Len(queue) \in Nat
  OBVIOUS
<1>1. CASE At = {}
  <2>1. r = queue
    BY <1>1 DEF QueueWithout
  <2> QED
    BY <1>1, <2>1
<1>2. CASE At # {}
  <2>1. n \in 1 .. Len(queue) /\ queue[n] = c
    BY <1>0, <1>2
  <2>2. r = SubSeq(queue, 1, n - 1) \o SubSeq(queue, n + 1, Len(queue))
    BY <1>2 DEF QueueWithout
  <2> HIDE DEF n, r
  <2>3. /\ r \in Seq(Clients) /\ Len(r) = Len(queue) - 1
        /\ \A i \in 1 .. Len(r) : r[i] = IF i < n THEN queue[i] ELSE queue[i + 1]
    <3> DEFINE a == SubSeq(queue, 1, n - 1)
               b == SubSeq(queue, n + 1, Len(queue))
    <3>1. /\ a \in Seq(Clients) /\ Len(a) = n - 1
          /\ \A i \in 1 .. n - 1 : a[i] = queue[i]
      BY <2>1, SubSeqProperties
    <3>2. /\ b \in Seq(Clients) /\ Len(b) = Len(queue) - n
          /\ \A i \in 1 .. Len(queue) - n : b[i] = queue[n + i]
      BY <2>1, SubSeqProperties
    <3> HIDE DEF a, b
    <3>3. /\ a \o b \in Seq(Clients) /\ Len(a \o b) = Len(a) + Len(b)
          /\ \A i \in 1 .. Len(a) + Len(b) :
               (a \o b)[i] = IF i <= Len(a) THEN a[i] ELSE b[i - Len(a)]
      BY <3>1, <3>2, ConcatProperties
    <3>4. r = a \o b
      BY <2>2 DEF a, b
    <3>5. Len(r) = Len(queue) - 1
      <4>1. \A l \in Nat : \A m \in 1 .. l : (m - 1) + (l - m) = l - 1
        OBVIOUS
      <4>2. (n - 1) + (Len(queue) - n) = Len(queue) - 1
        BY <1>0, <2>1, <4>1
      <4> QED
        BY <3>1, <3>2, <3>3, <3>4, <4>2
    <3>6. ASSUME NEW i \in 1 .. Len(r)
          PROVE  r[i] = IF i < n THEN queue[i] ELSE queue[i + 1]
      <4>1. CASE i < n
        BY <1>0, <2>1, <3>1, <3>2, <3>3, <3>4, <3>5, <4>1
      <4>2. CASE ~ (i < n)
        <5>1. /\ i - Len(a) \in 1 .. Len(queue) - n /\ ~ (i <= Len(a))
              /\ n + (i - Len(a)) = i + 1 /\ i \in 1 .. Len(a) + Len(b)
          BY <1>0, <2>1, <3>1, <3>2, <3>5, <4>2
        <5> QED
          BY <3>2, <3>3, <3>4, <4>2, <5>1
      <4> QED
        BY <4>1, <4>2
    <3> QED
      BY <3>3, <3>4, <3>5, <3>6
  <2>4. ASSUME NEW i \in DOMAIN r
        PROVE  \E k \in DOMAIN queue : /\ r[i] = queue[k] /\ k # n
                                       /\ i = IF k < n THEN k ELSE k - 1
    <3>1. i \in 1 .. Len(r) /\ Len(r) \in Nat
      BY <2>3
    <3>2. CASE i < n
      BY <1>0, <2>1, <2>3, <3>1, <3>2
    <3>3. CASE ~ (i < n)
      <4>1. i + 1 \in DOMAIN queue /\ ~ (i + 1 < n) /\ i + 1 # n /\ (i + 1) - 1 = i
        BY <1>0, <2>1, <2>3, <3>1, <3>3
      <4> QED
        BY <2>3, <3>1, <3>3, <4>1
    <3> QED
      BY <3>2, <3>3
  <2>5. ASSUME NEW i \in DOMAIN r, NEW j \in DOMAIN r, r[i] = r[j]
        PROVE  i = j
    BY <2>4, <2>5
  <2>6. ASSUME NEW i \in DOMAIN r
        PROVE  r[i] # c /\ \E k \in DOMAIN queue : r[i] = queue[k]
    <3>1. PICK k \in DOMAIN queue : r[i] = queue[k] /\ k # n
      BY <2>4
    <3> QED
      BY <1>0, <2>1, <3>1
  <2> QED
    BY <2>3, <2>5, <2>6 DEF r
<1> QED
  BY <1>1, <1>2

LEMMA TypesClient ==
  ASSUME StartupTypes, QueueInv, NEW c \in Clients,
         Connect(c) \/ ConnectFails(c) \/ LoginSuccess(c) \/ Verified(c) \/ Leave(c)
  PROVE  StartupTypes'
<1> USE DEF StartupTypes, clientVars, serverVars
<1>1. CASE Connect(c)
  BY <1>1 DEF Connect, GoTo, Stages
<1>2. CASE ConnectFails(c)
  BY <1>2 DEF ConnectFails, GoTo, Stages
<1>3. CASE LoginSuccess(c)
  <2>1. PICK contents : sent' = [sent EXCEPT ![c] = contents]
    BY <1>3 DEF LoginSuccess
  <2>2. sent' = [d \in Clients |-> sent'[d]]
    BY <2>1
  <2> QED
    BY <1>3, <2>2 DEF LoginSuccess, GoTo, Stages, Answers
<1>4. CASE Verified(c)
  BY <1>4 DEF Verified, GoTo, Stages
<1>5. CASE Leave(c)
  <2>1. queue' \in Seq(Clients)
    BY <1>5, QueueWithoutOne DEF Leave, QueueInv
  <2> QED
    BY <1>5, <2>1 DEF Leave, GoTo, Stages
<1> QED
  BY <1>1, <1>2, <1>3, <1>4, <1>5

LEMMA VerifyAnswers ==
  ASSUME NEW w, NEW repo, NEW name, NEW contents
  PROVE  Verify(w, repo, name, contents) \subseteq {0, 4, 5, 403}
BY Zenon DEF Verify

LEMMA TypesServer ==
  ASSUME StartupTypes, Server
  PROVE  StartupTypes'
<1> USE DEF StartupTypes, clientVars
<1>1. CASE RunServer
  BY <1>1 DEF RunServer
<1>2. CASE Accept
  <2>1. Head(queue) \in Clients /\ Tail(queue) \in Seq(Clients)
    BY <1>2, HeadTailProperties DEF Accept
  <2> QED
    BY <1>2, <2>1 DEF Accept
<1>3. CASE Hangup
  BY <1>3 DEF Hangup
<1>4. ASSUME NEW c \in Clients, TokenLogin(c)
      PROVE  StartupTypes'
  BY <1>4 DEF TokenLogin, Answer, Answers
<1>5. ASSUME NEW c \in Clients, DirectoryVerification(c)
      PROVE  StartupTypes'
  <2>0. PICK answer \in Verify(WatchPath, remote, DirName(config[c].path), sent[c]) :
          Answer(c, answer)
    BY <1>5 DEF DirectoryVerification
  <2>1. answer \in {0, 4, 5, 403} /\ Answer(c, answer)
    BY <2>0, VerifyAnswers
  <2>2. serving' \in {Nobody, serving} /\ raised' \in {raised, raised \cup {c}}
    BY <1>5 DEF DirectoryVerification
  <2>3. serving' \in Clients \cup {Nobody} /\ raised' \subseteq Clients
    BY <2>2
  <2> QED
    BY <2>1, <2>3 DEF Answer, Answers
<1> QED
  BY <1>1, <1>2, <1>3, <1>4, <1>5 DEF Server

LEMMA TypesNext ==
  ASSUME StartupTypes, QueueInv, [Next]_vars
  PROVE  StartupTypes'
<1>1. CASE UNCHANGED vars
  BY <1>1 DEF StartupTypes, vars, clientVars, serverVars
<1> QED
  BY <1>1, TypesSetup, TypesClient, TypesServer DEF Next, Client

(* A client that is in the queue or in service and does not move stays       *)
(* where it is.                                                             *)
LEMMA QueueStays ==
  ASSUME StartupTypes, QueueInv, NEW c \in Clients, NEW next \in Stages,
         GoTo(c, next), UNCHANGED <<queue, serving>>,
         Connected(c) \/ stage[c] = "left"
           => next \in {"login", "verifying", "begun", "refused"}
  PROVE  QueueInv'
BY DEF StartupTypes, QueueInv, GoTo, Connected

LEMMA QueueNext ==
  ASSUME StartupTypes, QueueInv, [Next]_vars
  PROVE  QueueInv'
<1> USE DEF Stages
<1>1. ASSUME NEW c \in Clients, TestLogin(c) \/ RunMain(c) \/ ConnectFails(c)
      PROVE  QueueInv'
  BY <1>1, QueueStays
  DEF TestLogin, RunMain, ConnectFails, OnlySetup, Connected, serverVars
<1>2. ASSUME NEW c \in Clients, Main(c)
      PROVE  QueueInv'
  BY <1>2, QueueStays DEF Main, ReadSetting, OnlySetup, Connected, serverVars
<1>3. ASSUME NEW c \in Clients, LoginSuccess(c) \/ Verified(c)
      PROVE  QueueInv'
  BY <1>3, QueueStays DEF LoginSuccess, Verified, Connected, serverVars
<1>4. ASSUME NEW c \in Clients, Connect(c)
      PROVE  QueueInv'
  <2>1. /\ stage[c] = "connecting" /\ stage' = [stage EXCEPT ![c] = "login"]
        /\ queue' = Append(queue, c) /\ serving' = serving
    BY <1>4 DEF Connect, GoTo, serverVars
  <2>2. /\ queue \in Seq(Clients) /\ Len(queue) \in Nat /\ DOMAIN queue = 1 .. Len(queue)
        /\ DOMAIN queue' = 1 .. Len(queue) + 1 /\ queue'[Len(queue) + 1] = c
        /\ \A i \in 1 .. Len(queue) : queue'[i] = queue[i]
    BY <2>1 DEF StartupTypes
  <2>3. \A i \in DOMAIN queue : queue[i] \in Clients
    BY <2>2
  <2>4. \A i \in DOMAIN queue : queue[i] # c
    BY <2>1 DEF QueueInv, Connected
  <2>5. ASSUME NEW i \in DOMAIN queue'
        PROVE  queue'[i] # serving /\ Connected(queue[i])'
    <3>1. CASE i = Len(queue) + 1
      <4>1. serving # c
        BY <2>1, ClientsAssumption DEF QueueInv, Connected
      <4> QED
        BY <2>1, <2>2, <3>1, <4>1 DEF StartupTypes, Connected
    <3>2. CASE i # Len(queue) + 1
      <4>1. i \in DOMAIN queue /\ queue'[i] = queue[i] /\ queue[i] \in Clients
        BY <2>2, <2>3, <3>2
      <4> QED
        BY <2>1, <2>4, <4>1 DEF StartupTypes, Connected, QueueInv
    <3> QED
      BY <3>1, <3>2
  <2>6. ASSUME NEW i \in DOMAIN queue', NEW j \in DOMAIN queue', queue'[i] = queue'[j]
        PROVE  i = j
    <3>1. CASE i \in DOMAIN queue /\ j \in DOMAIN queue
      BY <2>2, <2>6, <3>1 DEF QueueInv
    <3>2. CASE i \notin DOMAIN queue \/ j \notin DOMAIN queue
      <4>1. \A k \in DOMAIN queue' : k \in DOMAIN queue \/ k = Len(queue) + 1
        BY <2>2
      <4> QED
        BY <2>2, <2>4, <2>6, <3>2, <4>1
    <3> QED
      BY <3>1, <3>2
  <2>7. serving' # Nobody => Connected(serving)' \/ stage'[serving'] = "left"
    BY <2>1 DEF QueueInv, StartupTypes, Connected
  <2> QED
    BY <2>1, <2>5, <2>6, <2>7 DEF QueueInv
<1>5. ASSUME NEW c \in Clients, Leave(c)
      PROVE  QueueInv'
  <2>1. /\ stage' = [stage EXCEPT ![c] = "left"] /\ serving' = serving
        /\ queue' = QueueWithout(c)
    BY <1>5 DEF Leave, GoTo, serverVars
  <2>2. /\ \A i, j \in DOMAIN queue' : queue'[i] = queue'[j] => i = j
        /\ \A i \in DOMAIN queue' :
             queue'[i] # c /\ \E k \in DOMAIN queue : queue'[i] = queue[k]
    BY <2>1, QueueWithoutOne DEF StartupTypes, QueueInv
  <2>3. \A k \in DOMAIN queue : queue[k] \in Clients
    BY DEF StartupTypes
  <2>4. ASSUME NEW i \in DOMAIN queue'
        PROVE  queue'[i] # serving /\ Connected(queue[i])'
    BY <2>1, <2>2, <2>3 DEF StartupTypes, Connected, QueueInv
  <2>5. serving' # Nobody => Connected(serving)' \/ stage'[serving'] = "left"
    BY <2>1 DEF QueueInv, StartupTypes, Connected
  <2> QED
    BY <2>1, <2>2, <2>4, <2>5 DEF QueueInv
<1>6. CASE Accept
  <2>1. /\ queue # <<>> /\ serving = Nobody /\ serving' = Head(queue)
        /\ queue' = Tail(queue) /\ stage' = stage
    BY <1>6 DEF Accept
  <2>2. /\ Len(queue) \in Nat \ {0} /\ DOMAIN queue = 1 .. Len(queue)
        /\ DOMAIN queue' = 1 .. Len(queue) - 1 /\ Head(queue) = queue[1]
        /\ \A i \in 1 .. Len(queue) - 1 : queue'[i] = queue[i + 1]
    BY <2>1, HeadTailProperties, EmptySeq DEF StartupTypes
  <2>3. \A i \in DOMAIN queue' : i \in Nat \ {0} /\ i + 1 \in DOMAIN queue
    BY <2>2
  <2>4. 1 \in DOMAIN queue
    BY <2>2
  <2>5. ASSUME NEW i \in DOMAIN queue', NEW j \in DOMAIN queue', queue'[i] = queue'[j]
        PROVE  i = j
    BY <2>2, <2>3, <2>5 DEF QueueInv
  <2>6. ASSUME NEW i \in DOMAIN queue'
        PROVE  queue'[i] # serving' /\ Connected(queue[i])'
    BY <2>1, <2>2, <2>3, <2>4 DEF QueueInv, Connected
  <2> QED
    BY <2>1, <2>2, <2>4, <2>5, <2>6 DEF QueueInv, Connected
<1>7. CASE Hangup
  BY <1>7, ClientsAssumption DEF Hangup, QueueInv, Connected, StartupTypes
<1>8. ASSUME NEW c \in Clients, TokenLogin(c) \/ DirectoryVerification(c)
      PROVE  QueueInv'
  <2>1. serving' \in {serving, Nobody} /\ queue' = queue /\ stage' = stage
    BY <1>8 DEF TokenLogin, DirectoryVerification, Answer
  <2>2. \A i \in DOMAIN queue : queue[i] # Nobody
    BY ClientsAssumption DEF StartupTypes
  <2> QED
    BY <2>1, <2>2 DEF QueueInv, Connected
<1>9. CASE RunServer \/ UNCHANGED vars
  BY <1>9 DEF RunServer, vars, serverVars, QueueInv, Connected
<1> QED
  BY <1>1, <1>2, <1>3, <1>4, <1>5, <1>6, <1>7, <1>8, <1>9 DEF Next, Server, Client

-----------------------------------------------------------------------------
(* What each client is told.                                               *)

Unconnected == {"main", "host", "port", "path", "strict", "connecting", "unconnected"}

(* What a client may send of its HEAD. *)
Listings(c) ==
  Contents(config[c].path,
           HashFiles(VisitFiles(AbsolutePath(config[c].path, Cwd), machine[c].head),
                     machine[c].disk))

RequestInv(c) ==
  /\ request[c] = "token_login" => stage[c] = "login"
  /\ request[c] = "directory_verification" => stage[c] = "verifying"
  /\ request[c] # NoRequest \/ stage[c] \in Unconnected => code[c] = NoCode

VerdictInv(c) ==
  stage[c] = "verifying" =>
    /\ sent[c] \in Listings(c)
    /\ code[c] = 0 /\ c \notin raised => sent[c] \in FileHash(WatchPath, remote.head, remote.disk)

(* While main() reads the settings, those it has read are the defaults. *)
SettledInv(c) ==
  /\ stage[c] \in {"main", "host"} => group[c] = <<>>
  /\ stage[c] \in {"port", "path", "strict"} => group[c] # <<>>
  /\ group[c] # <<>> /\ Flat(machine[c].ini) =>
       /\ config[c].host = Defaulted(c).host
       /\ stage[c] # "port" => config[c].port = DefaultPort
       /\ stage[c] \notin {"port", "path"} => config[c].path = <<>>
       /\ stage[c] \notin {"port", "path", "strict"} => config[c].strict = FALSE

ClientInv(c) == RequestInv(c) /\ VerdictInv(c) /\ SettledInv(c)

(* A step of another client. *)
LEMMA ClientElsewhere ==
  ASSUME NEW c \in Clients, ClientInv(c), UNCHANGED <<machine, remote>>,
         UNCHANGED <<stage[c], group[c], config[c], sent[c], code[c], request[c]>>,
         raised \subseteq raised'
  PROVE  ClientInv(c)'
BY DEF ClientInv, RequestInv, VerdictInv, SettledInv, Listings, Defaulted, WatchPath,
       ServerSetting

LEMMA ClientSetup ==
  ASSUME StartupTypes, NEW c \in Clients, ClientInv(c),
         NEW b \in Clients, TestLogin(b) \/ RunMain(b) \/ Main(b)
  PROVE  ClientInv(c)'
<1>0. OnlySetup
  BY DEF TestLogin, RunMain, Main, ReadSetting
<1>1. CASE b # c
  <2>1. CASE TestLogin(b) \/ RunMain(b)
    BY <1>0, <1>1, <2>1, ClientElsewhere
    DEF TestLogin, RunMain, GoTo, OnlySetup, serverVars, StartupTypes
  <2>2. CASE Main(b)
    <3>1. PICK from, next, r, g : Reads(b, from, next, r, g)
      BY <2>2, ReadHost, ReadPort, ReadPath, ReadStrict DEF Main
    <3> QED
      BY <1>0, <1>1, <3>1, ClientElsewhere
      DEF Reads, GoTo, OnlySetup, serverVars, StartupTypes
  <2> QED
    BY <2>1, <2>2
<1>2. ASSUME b = c, NEW next \in {"host", "port", "path", "strict", "connecting"},
             GoTo(c, next), stage[c] \in {"main", "host", "port", "path", "strict"},
             SettledInv(c)'
      PROVE  ClientInv(c)'
  <2>1. /\ stage'[c] = next /\ UNCHANGED <<request, code>>
    BY <1>0, <1>2 DEF GoTo, OnlySetup, StartupTypes
  <2>2. RequestInv(c)' /\ VerdictInv(c)'
    BY <1>2, <2>1 DEF ClientInv, RequestInv, VerdictInv, Unconnected
  <2> QED
    BY <1>2, <2>2 DEF ClientInv
<1>3. CASE b = c /\ TestLogin(c)
  <2>1. GoTo(c, "connecting") /\ stage'[c] = "connecting" /\ stage[c] = "main"
        /\ group' = group
    BY <1>3 DEF TestLogin, GoTo, StartupTypes
  <2>2. SettledInv(c)'
    BY <2>1 DEF ClientInv, SettledInv
  <2> QED
    BY <1>2, <1>3, <2>1, <2>2
<1>4. CASE b = c /\ RunMain(c)
  <2>1. GoTo(c, "host") /\ stage'[c] = "host" /\ stage[c] = "main" /\ group' = group
    BY <1>4 DEF RunMain, GoTo, StartupTypes
  <2>2. SettledInv(c)'
    BY <2>1 DEF ClientInv, SettledInv
  <2> QED
    BY <1>2, <1>4, <2>1, <2>2
<1>5. ASSUME b = c, NEW from \in {"host", "port", "path", "strict"},
             NEW next \in {"port", "path", "strict", "connecting"},
             NEW r, NEW g, Reads(c, from, next, r, g)
      PROVE  /\ GoTo(c, next) /\ stage'[c] = next /\ stage[c] = from
             /\ config'[c] = r /\ group'[c] = g /\ g # <<>> /\ machine' = machine
             /\ Defaulted(c)' = Defaulted(c)
  BY <1>5 DEF Reads, GoTo, OnlySetup, StartupTypes, Defaulted
<1>6. CASE b = c /\ ReadSetting(c, "server", "host", DefaultHost, NoHost, "port")
  <2>1. PICK r, g :
          /\ Reads(c, "host", "port", r, g)
          /\ group[c] = <<>> /\ Flat(machine[c].ini) => r.host = Defaulted(c).host
    BY <1>6, ReadHost
  <2>2. /\ GoTo(c, "port") /\ stage'[c] = "port" /\ stage[c] = "host"
        /\ config'[c] = r /\ group'[c] = g /\ g # <<>> /\ machine' = machine
        /\ Defaulted(c)' = Defaulted(c)
    BY <1>5, <1>6, <2>1
  <2>3. SettledInv(c)'
    BY <2>1, <2>2 DEF ClientInv, SettledInv
  <2> QED
    BY <1>2, <1>6, <2>2, <2>3
<1>7. CASE b = c /\ ReadSetting(c, "server", "port", DefaultPort, 0, "path")
  <2>1. PICK r, g :
          /\ Reads(c, "port", "path", r, g) /\ r.host = config[c].host
          /\ group[c] # <<>> /\ Flat(machine[c].ini) => r.port = DefaultPort
    BY <1>7, ReadPort
  <2>2. /\ GoTo(c, "path") /\ stage'[c] = "path" /\ stage[c] = "port"
        /\ config'[c] = r /\ group'[c] = g /\ g # <<>> /\ machine' = machine
        /\ Defaulted(c)' = Defaulted(c)
    BY <1>5, <1>7, <2>1
  <2>3. SettledInv(c)'
    BY <2>1, <2>2 DEF ClientInv, SettledInv
  <2> QED
    BY <1>2, <1>7, <2>2, <2>3
<1>8. CASE b = c /\ ReadSetting(c, "local", "path", Invalid, <<>>, "strict")
  <2>1. PICK r, g :
          /\ Reads(c, "path", "strict", r, g)
          /\ r.host = config[c].host /\ r.port = config[c].port
          /\ group[c] # <<>> /\ Flat(machine[c].ini) => r.path = <<>>
    BY <1>8, ReadPath
  <2>2. /\ GoTo(c, "strict") /\ stage'[c] = "strict" /\ stage[c] = "path"
        /\ config'[c] = r /\ group'[c] = g /\ g # <<>> /\ machine' = machine
        /\ Defaulted(c)' = Defaulted(c)
    BY <1>5, <1>8, <2>1
  <2>3. SettledInv(c)'
    BY <2>1, <2>2 DEF ClientInv, SettledInv
  <2> QED
    BY <1>2, <1>8, <2>2, <2>3
<1>9. CASE b = c /\ ReadSetting(c, "local", "strict", Invalid, FALSE, "connecting")
  <2>1. PICK r, g :
          /\ Reads(c, "strict", "connecting", r, g)
          /\ r.host = config[c].host /\ r.port = config[c].port /\ r.path = config[c].path
          /\ group[c] # <<>> /\ Flat(machine[c].ini) => r.strict = FALSE
    BY <1>9, ReadStrict
  <2>2. /\ GoTo(c, "connecting") /\ stage'[c] = "connecting" /\ stage[c] = "strict"
        /\ config'[c] = r /\ group'[c] = g /\ g # <<>> /\ machine' = machine
        /\ Defaulted(c)' = Defaulted(c)
    BY <1>5, <1>9, <2>1
  <2>3. SettledInv(c)'
    BY <2>1, <2>2 DEF ClientInv, SettledInv
  <2> QED
    BY <1>2, <1>9, <2>2, <2>3
<1> QED
  BY <1>1, <1>3, <1>4, <1>6, <1>7, <1>8, <1>9 DEF Main

(* An answer 0 that no exception follows: the client has sent what is there. *)
LEMMA VerifyZero ==
  ASSUME NEW w, NEW repo, NEW name, NEW contents,
         CanVerify(w, repo), 0 \in Verify(w, repo, name, contents)
  PROVE  contents \in FileHash(w, repo.head, repo.disk)
<1>1. 0 \notin {403} /\ 0 \notin {4}
  OBVIOUS
<1>2. 0 \in {IF contents = hashes THEN 0 ELSE 5 :
               hashes \in FileHash(w, repo.head, repo.disk)}
  BY <1>1, Zenon DEF CanVerify, Verify
<1>3. PICK hashes \in FileHash(w, repo.head, repo.disk) :
        0 = IF contents = hashes THEN 0 ELSE 5
  BY <1>2, Zenon
<1> QED
  BY <1>3

LEMMA ClientMoves ==
  ASSUME StartupTypes, NEW c \in Clients, ClientInv(c), NEW b \in Clients,
         Connect(b) \/ ConnectFails(b) \/ LoginSuccess(b) \/ Verified(b) \/ Leave(b)
  PROVE  ClientInv(c)'
<1> USE DEF clientVars, serverVars
<1>1. CASE b # c
  <2>1. UNCHANGED <<machine, remote, group, config, raised>>
    BY DEF Connect, ConnectFails, LoginSuccess, Verified, Leave
  <2>2. UNCHANGED <<stage[c], sent[c], code[c], request[c]>>
    BY <1>1 DEF Connect, ConnectFails, LoginSuccess, Verified, Leave, GoTo, StartupTypes
  <2> QED
    BY <2>1, <2>2, ClientElsewhere
<1>2. ASSUME NEW next \in Stages \ Unconnected, GoTo(c, next), stage[c] # "main",
             stage[c] \notin {"host", "port", "path", "strict"},
             UNCHANGED <<group, config, machine>>
      PROVE  SettledInv(c)'
  <2>1. stage'[c] = next
    BY <1>2 DEF GoTo, StartupTypes
  <2> QED
    BY <1>2, <2>1 DEF ClientInv, SettledInv, Stages, Unconnected, Defaulted
<1>3. CASE Connect(c)
  <2>1. stage'[c] = "login" /\ request'[c] = "token_login" /\ code'[c] = NoCode
    BY <1>3 DEF Connect, GoTo, StartupTypes, ClientInv, RequestInv, Unconnected
  <2>2. SettledInv(c)'
    BY <1>2, <1>3 DEF Connect, Stages, Unconnected
  <2> QED
    BY <2>1, <2>2 DEF ClientInv, RequestInv, VerdictInv
<1>4. CASE ConnectFails(c)
  <2>1. stage'[c] = "unconnected" /\ UNCHANGED <<request, code, group, config, machine>>
        /\ stage[c] = "connecting"
    BY <1>4 DEF ConnectFails, GoTo, StartupTypes
  <2>2. SettledInv(c)'
    BY <2>1 DEF ClientInv, SettledInv, Defaulted
  <2>3. RequestInv(c)' /\ VerdictInv(c)'
    BY <2>1 DEF ClientInv, RequestInv, VerdictInv, Unconnected
  <2> QED
    BY <2>2, <2>3 DEF ClientInv
<1>5. CASE LoginSuccess(c)
  <2>1. PICK contents \in Listings(c) : sent' = [sent EXCEPT ![c] = contents]
    BY <1>5 DEF LoginSuccess, Listings
  <2>2. sent'[c] = contents
    BY <2>1 DEF StartupTypes
  <2>3. /\ stage'[c] = "verifying" /\ request'[c] = "directory_verification"
        /\ code'[c] = NoCode /\ UNCHANGED <<machine, config, remote, raised>>
    BY <1>5 DEF LoginSuccess, GoTo, StartupTypes
  <2>4. SettledInv(c)'
    BY <1>2, <1>5 DEF LoginSuccess, Stages, Unconnected
  <2>5. VerdictInv(c)'
    BY <2>1, <2>2, <2>3 DEF VerdictInv, Listings, NoCode
  <2> QED
    BY <2>3, <2>4, <2>5 DEF ClientInv, RequestInv, Unconnected
<1>6. CASE Verified(c)
  <2>1. PICK next \in {"refused", "begun"} : GoTo(c, next)
    BY <1>6 DEF Verified
  <2>2. stage'[c] = next /\ UNCHANGED <<request, code>>
    BY <1>6, <2>1 DEF Verified, GoTo, StartupTypes
  <2>3. SettledInv(c)'
    BY <1>2, <1>6, <2>1 DEF Verified, Stages, Unconnected
  <2>4. request[c] = NoRequest
    BY <1>6 DEF Verified, ClientInv, RequestInv, StartupTypes
  <2> QED
    BY <2>2, <2>3, <2>4 DEF ClientInv, RequestInv, VerdictInv, Unconnected, NoRequest
<1>7. CASE Leave(c)
  <2>1. stage'[c] = "left" /\ request'[c] = NoRequest
    BY <1>7 DEF Leave, GoTo, StartupTypes
  <2>2. SettledInv(c)'
    BY <1>2, <1>7 DEF Leave, Stages, Unconnected, Connected
  <2> QED
    BY <2>1, <2>2 DEF ClientInv, RequestInv, VerdictInv, Unconnected, NoRequest
<1> QED
  BY <1>1, <1>3, <1>4, <1>5, <1>6, <1>7

LEMMA ClientServed ==
  ASSUME StartupTypes, NEW c \in Clients, ClientInv(c), Server
  PROVE  ClientInv(c)'
<1> USE DEF clientVars, serverVars
<1>1. CASE RunServer \/ Accept \/ Hangup
  BY <1>1, ClientElsewhere DEF RunServer, Accept, Hangup
<1>2. ASSUME NEW b \in Clients, NEW answer, Answer(b, answer), b # c, raised \subseteq raised'
      PROVE  ClientInv(c)'
  BY <1>2, ClientElsewhere DEF Answer, StartupTypes
<1>3. ASSUME NEW b \in Clients, TokenLogin(b)
      PROVE  ClientInv(c)'
  <2>1. PICK answer \in {0, 403} : Answer(b, answer) /\ raised' = raised
    BY <1>3 DEF TokenLogin
  <2>2. CASE b # c
    BY <1>2, <2>1, <2>2
  <2>3. CASE b = c
    <3>1. stage[c] = "login" /\ stage' = stage
      BY <1>3, <2>1, <2>3 DEF TokenLogin, ClientInv, RequestInv, Answer
    <3>2. request'[c] = NoRequest
      BY <2>1, <2>3 DEF Answer, StartupTypes
    <3>3. SettledInv(c)'
      BY <2>1 DEF Answer, ClientInv, SettledInv, Defaulted
    <3> QED
      BY <3>1, <3>2, <3>3 DEF ClientInv, RequestInv, VerdictInv, Unconnected, NoRequest
  <2> QED
    BY <2>2, <2>3
<1>4. ASSUME NEW b \in Clients, DirectoryVerification(b)
      PROVE  ClientInv(c)'
  <2>1. PICK verdict \in Verify(WatchPath, remote, DirName(config[b].path), sent[b]) :
          /\ Answer(b, verdict) /\ raised \subseteq raised'
          /\ request[b] = "directory_verification"
          /\ verdict = 0 /\ ~CanVerify(WatchPath, remote) => b \in raised'
    BY <1>4 DEF DirectoryVerification
  <2>2. CASE b # c
    BY <1>2, <2>1, <2>2
  <2>3. CASE b = c
    <3>1. /\ stage[c] = "verifying" /\ sent[c] \in Listings(c)
          /\ UNCHANGED <<stage, machine, group, config, sent, remote>>
      BY <2>1, <2>3 DEF Answer, ClientInv, RequestInv, VerdictInv
    <3>2. request'[c] = NoRequest /\ code'[c] = verdict
      BY <2>1, <2>3 DEF Answer, StartupTypes
    <3>3. SettledInv(c)'
      BY <3>1 DEF ClientInv, SettledInv, Defaulted
    <3>4. ASSUME verdict = 0, c \notin raised'
          PROVE  sent[c] \in FileHash(WatchPath, remote.head, remote.disk)
      BY <2>1, <2>3, <3>4, VerifyZero
    <3>5. VerdictInv(c)'
      BY <3>1, <3>2, <3>4 DEF VerdictInv, Listings, WatchPath, ServerSetting
    <3>6. RequestInv(c)'
      BY <3>1, <3>2 DEF RequestInv, Unconnected, NoRequest
    <3> QED
      BY <3>3, <3>5, <3>6 DEF ClientInv
  <2> QED
    BY <2>2, <2>3
<1> QED
  BY <1>1, <1>3, <1>4 DEF Server

-----------------------------------------------------------------------------
(* The inductive invariant.                                                *)

StartupInv == StartupTypes /\ QueueInv /\ \A c \in Clients : ClientInv(c)

LEMMA InvInit == Init => StartupInv
<1> SUFFICES ASSUME Init PROVE StartupInv
  OBVIOUS
<1>1. StartupTypes
  BY TypesInit
<1>2. QueueInv
  BY DEF Init, QueueInv
<1>3. ASSUME NEW c \in Clients
      PROVE  ClientInv(c)
  <2>1. stage[c] = "main" /\ group[c] = <<>> /\ request[c] = NoRequest /\ code[c] = NoCode
    BY DEF Init
  <2> QED
    BY <2>1 DEF ClientInv, RequestInv, VerdictInv, SettledInv, NoRequest
<1> QED
  BY <1>1, <1>2, <1>3 DEF StartupInv

LEMMA InvNext ==
  ASSUME StartupInv, [Next]_vars
  PROVE  StartupInv'
<1>1. StartupTypes' /\ QueueInv'
  BY TypesNext, QueueNext DEF StartupInv
<1>2. ASSUME NEW c \in Clients
      PROVE  ClientInv(c)'
  <2>1. StartupTypes /\ ClientInv(c)
    BY DEF StartupInv
  <2>2. CASE UNCHANGED vars
    BY <2>1, <2>2, ClientElsewhere DEF vars, clientVars, serverVars
  <2> QED
    BY <2>1, <2>2, ClientSetup, ClientMoves, ClientServed DEF Next, Client
<1> QED
  BY <1>1, <1>2 DEF StartupInv

LEMMA Invariance == Spec => []StartupInv
BY InvInit, InvNext, PTL DEF Spec

(* Every variable keeps to its range; a connection is in the queue once at   *)
(* most, and never there and in service: the single-threaded TCPServer takes *)
(* the next connection when the session has ended (server.py:213-216).       *)
THEOREM StartupTypeCorrect == Spec => []StartupTypeOK
<1>1. StartupInv => StartupTypeOK
  <2> SUFFICES ASSUME StartupInv PROVE StartupTypeOK
    OBVIOUS
  <2>1. \A c \in Clients : config[c].strict \in BOOLEAN
    BY DEF StartupInv, StartupTypes, Configs
  <2> QED
    BY <2>1 DEF StartupInv, StartupTypes, QueueInv, StartupTypeOK, Answers
<1> QED
  BY <1>1, Invariance, PTL

(* The answer 0 can be believed: in a session that goes on, the client has   *)
(* sent exactly the files of the server's HEAD with their hashes             *)
(* (server.py:112-138).                                                      *)
THEOREM ZeroCanBeBelieved == Spec => []VerifiedMeansSent
<1>1. StartupInv => VerifiedMeansSent
  BY DEF StartupInv, ClientInv, VerdictInv, VerifiedMeansSent
<1> QED
  BY <1>1, Invariance, PTL

(* No value of an ordinary ini file is ever used, whatever the file says     *)
(* (Configure.cpp:38-48, main.cpp:65-76).                                    *)
THEOREM IniFilesAreIgnored == Spec => []SettingsAreDefaults
<1>1. StartupInv => SettingsAreDefaults
  <2> SUFFICES ASSUME StartupInv, NEW c \in Clients,
                      stage[c] \notin {"main", "host", "port", "path", "strict"},
                      group[c] # <<>>, Flat(machine[c].ini)
               PROVE  config[c] = Defaulted(c)
    BY DEF SettingsAreDefaults
  <2>1. /\ config[c].host = Defaulted(c).host /\ config[c].port = DefaultPort
        /\ config[c].path = <<>> /\ config[c].strict = FALSE
    BY DEF StartupInv, ClientInv, SettledInv
  <2>2. config[c] = [host |-> config[c].host, port |-> config[c].port,
                     path |-> config[c].path, strict |-> config[c].strict]
    BY DEF StartupInv, StartupTypes, Configs
  <2>3. Defaulted(c).port = DefaultPort /\ Defaulted(c).path = <<>> /\ Defaulted(c).strict = FALSE
    BY DEF Defaulted
  <2>4. Defaulted(c) = [host |-> Defaulted(c).host, port |-> DefaultPort,
                        path |-> <<>>, strict |-> FALSE]
    BY DEF Defaulted
  <2> QED
    BY <2>1, <2>2, <2>4
<1> QED
  BY <1>1, Invariance, PTL

-----------------------------------------------------------------------------
(* Paths that are glued without a slash.                                   *)

Strings == STRING \cup {Slash}

(* A relative path glued to a root is not under that root. *)
LEMMA GluedIsElsewhere ==
  ASSUME NEW root \in Seq(Strings),
         NEW p \in Seq(Strings), p # <<>>, p[1] # Slash
  PROVE  SubSeq(root \o p, 1, Len(root) + 1) # root \o <<Slash>>
<1> DEFINE n == Len(root) + 1
           under == root \o <<Slash>>
           glued == root \o p
<1>1. <<Slash>> \in Seq(Strings)
  BY DEF Strings
<1>2. Len(root) \in Nat /\ Len(p) \in Nat \ {0}
  BY EmptySeq
<1>3. under \in Seq(Strings) /\ Len(under) = n /\ under[n] = Slash
  BY <1>1, <1>2
<1>4. glued \in Seq(Strings) /\ Len(glued) = Len(root) + Len(p) /\ glued[n] = p[1]
  BY <1>2
<1> HIDE DEF under, glued
<1>5. n \in 1 .. Len(glued) /\ n \in Nat
  BY <1>2, <1>4
<1>6. SubSeq(glued, 1, n)[n] = glued[n]
  BY <1>4, <1>5
<1> QED
  BY <1>3, <1>4, <1>6 DEF glued, under

LEMMA CleanAbsolute ==
  ASSUME NEW path \in CleanPaths, NEW cwd \in CleanPaths
  PROVE  AbsolutePath(path, cwd) \in Seq(Strings)
<1>0. path \in Seq(STRING) /\ cwd \in Seq(STRING)
  BY Zenon DEF CleanPaths
<1>1. path \in Seq(Strings) /\ cwd \in Seq(Strings) /\ <<Slash>> \in Seq(Strings)
  BY <1>0 DEF Strings
<1>2. WithoutSlash(path) \in Seq(Strings)
  <2>1. Len(path) \in Nat /\ \A n \in Nat : n > 1 => n - 1 \in 0 .. n
    BY <1>1
  <2>2. Len(path) > 1 => SubSeq(path, 1, Len(path) - 1) \in Seq(Strings)
    BY <1>1, <2>1, SubSeqProperties
  <2> QED
    BY <1>1, <2>2 DEF WithoutSlash
<1>3. WithSlash(cwd) \in Seq(Strings)
  BY <1>1, ConcatProperties DEF WithSlash
<1>4. WithSlash(cwd) \o WithoutSlash(path) \in Seq(Strings)
  BY <1>2, <1>3, ConcatProperties
<1> QED
  BY <1>1, <1>2, <1>4 DEF AbsolutePath

(* A client whose disk has nothing beside its root hashes nothing. *)
LEMMA NothingIsHashed ==
  ASSUME StartupTypes, NEW c \in Clients, NEW contents \in Listings(c),
         NothingBeside(c)
  PROVE  DOMAIN contents = {}
<1>p. PICK at \in CleanPaths : at = config[c].path
  BY DEF StartupTypes, Configs
<1>m. PICK m \in Machines : m = machine[c]
  BY DEF StartupTypes
<1> DEFINE root == AbsolutePath(at, Cwd)
           hashes == HashFiles(VisitFiles(root, m.head), m.disk)
<1>1. root \in Seq(Strings)
  BY CwdAssumption, CleanAbsolute
<1>2. ASSUME NEW p \in m.head
      PROVE  root \o p \notin DOMAIN m.disk
  <2>1. p \in Seq(Strings) /\ p # <<>> /\ p[1] # Slash
    BY MachinesAssumption DEF Strings
  <2>2. \A path \in DOMAIN m.disk : SubSeq(path, 1, Len(root) + 1) = root \o <<Slash>>
    BY <1>p, <1>m DEF NothingBeside
  <2> HIDE DEF root
  <2>3. SubSeq(root \o p, 1, Len(root) + 1) # root \o <<Slash>>
    BY <1>1, <2>1, GluedIsElsewhere
  <2> QED
    BY <2>2, <2>3
<1>3. DOMAIN hashes = {}
  BY <1>2 DEF HashFiles, VisitFiles
<1>4. contents \in Contents(at, hashes)
  BY <1>p, <1>m DEF Listings
<1> HIDE DEF hashes
<1> QED
  BY <1>3, <1>4 DEF Contents

LEMMA ContentsOfNothing ==
  ASSUME NEW w, NEW hashes, NEW contents \in Contents(w, hashes), DOMAIN contents = {}
  PROVE  DOMAIN hashes = {}
<1>1. DOMAIN contents = {CutAfter(path, Len(w) + 1) : path \in DOMAIN hashes}
  BY DEF Contents
<1> QED
  BY <1>1

(* Equal trees do not pass: GitFile puts no slash between a root and a path, *)
(* so that, unless the root is "/" or a file lies beside the work tree,      *)
(* where such a name points, the client sends nothing and only an empty HEAD *)
(* is answered 0                                                             *)
(* (GitFile.cpp:53-59, ControlClient.cpp:79-83, Client.cpp:91-95).           *)
THEOREM EqualTreesFail == Spec => []OnlyEmptyPasses
<1>1. StartupInv => OnlyEmptyPasses
  <2> SUFFICES ASSUME StartupInv, NEW c \in Clients,
                      stage[c] = "verifying", code[c] = 0, c \notin raised,
                      NothingBeside(c)
               PROVE  remote.head = {}
    BY DEF OnlyEmptyPasses
  <2>1. /\ StartupTypes /\ sent[c] \in Listings(c)
        /\ sent[c] \in FileHash(WatchPath, remote.head, remote.disk)
    BY DEF StartupInv, ClientInv, VerdictInv
  <2>2. DOMAIN sent[c] = {}
    BY <2>1, NothingIsHashed
  <2>3. AllFiles(WatchPath, remote.head) = {}
    <3> DEFINE hashes == [path \in AllFiles(WatchPath, remote.head) |-> remote.disk[path]]
    <3>1. DOMAIN hashes = AllFiles(WatchPath, remote.head)
      OBVIOUS
    <3>2. sent[c] \in Contents(WatchPath, hashes)
      BY <2>1 DEF FileHash
    <3> HIDE DEF hashes
    <3> QED
      BY <2>2, <3>1, <3>2, ContentsOfNothing
  <2> QED
    BY <2>3 DEF AllFiles
<1> QED
  BY <1>1, Invariance, PTL

=================================================================================
