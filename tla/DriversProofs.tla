---------------------------- MODULE DriversProofs ----------------------------
(***************************************************************************)
(* Theorems about Drivers, for every set of resources, any number of       *)
(* faults and of edits, and every assignment of kinds in which an SQL      *)
(* instance is not worked on together with what is on it.                  *)
(*                                                                         *)
(* First what each script of DriverScripts can be at (Fits, Sound): the    *)
(* only part that looks at the 23 drivers one by one.  Then an invariant   *)
(* of one resource at a time (Local), a lemma on each sort of step that    *)
(* keeps it, and one on each action that brings the action under a sort.   *)
(***************************************************************************)
EXTENDS Drivers, SequenceTheorems, TLAPS

----------------------------------------------------------------------------
(* Scripts *)

\* What the service does at once, and what starts an operation or ends its wait.
Direct == {"Bucket", "RuledBucket", "BucketObject", "Image", "CloudSchedulerJob",
           "NotificationChannel", "UptimeCheckConfig", "UptimeAlertPolicy"}
Effects == {"insert", "make", "rewrite", "patch", "amend", "put", "remove", "drop"}

\* Step x of a method of kind k, before step y or at the end of the script.
Fits(k, method, x, y) ==
    /\ x \in Steps
    /\ x = "lock" => k \in OnInstance
    /\ x \in Starts => y \in {"await", "settle", "gone"} /\ k \notin Direct
    /\ x \in Starts /\ k \in OnInstance => y = "await"
    /\ x \in {"make", "amend"} => k \in Direct \/ (k = "CloudRun" /\ y = "ready")
    /\ x \in {"put", "drop"} => k \in Direct
    /\ x = "insert" => k # "CloudRun"
    /\ x = "settle" => k = "CloudFunction"
    /\ x \in {"ready", "gone"} => k = "CloudRun"
    /\ k = "APIService" => x \in {"insert", "await"}
    /\ x \in {"fetch", "patch"} => method = "update"
    /\ x \in {"remove", "drop", "gone"} => method = "delete"
    /\ x \in Effects \cup {"settle", "ready"} /\ method = "delete" => x \in {"remove", "drop"}
    /\ x \in PolicySteps => method # "delete" /\ k \in WithPolicy /\ y = "end"
    /\ x = "policyIfPublic" => method = "create"
    /\ k \in WithPolicy /\ method # "delete" /\ y = "end" => x \in PolicySteps

After(s, i) == IF i < Len(s) THEN s[i + 1] ELSE "end"

\* What may be left of a script.
Rest(k, method, s) ==
    s \in Seq(Steps) /\ \A i \in 1..Len(s) : Fits(k, method, s[i], After(s, i))

Acts(s) == \E i \in 1..Len(s) : s[i] \in Effects

\* A whole script acts on the resource; that of a user or of a database takes
\* the mutex first.
Whole(k, method, s) ==
    /\ k # "APIService" \/ method # "delete" => Acts(s)
    /\ k \in {"CloudSQLUser", "CloudSQLDatabase"} => s # << >> /\ Head(s) = "lock"

\* What is left after a step is what may be left, and an effect not yet had is still to come.
LEMMA RestTail ==
    ASSUME NEW k, NEW method, NEW s, Rest(k, method, s), s # << >>
    PROVE  /\ Fits(k, method, Head(s), IF Tail(s) = << >> THEN "end" ELSE Head(Tail(s)))
           /\ Rest(k, method, Tail(s))
           /\ Head(s) \notin Effects /\ Acts(s) => Acts(Tail(s))
<1>1. s \in Seq(Steps) /\ Tail(s) \in Seq(Steps) /\ Len(Tail(s)) = Len(s) - 1
      /\ Len(s) \in Nat \ {0}
      BY DEF Rest
<1>2. \A i \in 1..Len(Tail(s)) : Tail(s)[i] = s[i + 1] /\ i + 1 \in 1..Len(s)
      BY <1>1
<1>3. Fits(k, method, Head(s), IF Tail(s) = << >> THEN "end" ELSE Head(Tail(s)))
  <2>1. Fits(k, method, s[1], After(s, 1)) /\ Head(s) = s[1]
        BY <1>1 DEF Rest
  <2>2. After(s, 1) = IF Tail(s) = << >> THEN "end" ELSE Head(Tail(s))
    <3>0. Tail(s) = << >> => Len(Tail(s)) = 0
          BY <1>1, EmptySeq
    <3>1. CASE Tail(s) = << >>
          BY <1>1, <3>1, <3>0 DEF After
    <3>2. CASE Tail(s) # << >>
      <4>1. Len(Tail(s)) > 0 /\ Head(Tail(s)) = Tail(s)[1]
            BY <1>1, <3>2
      <4> QED
          BY <1>1, <1>2, <3>2, <4>1 DEF After
    <3> QED
        BY <3>1, <3>2
  <2> QED
      BY <2>1, <2>2
<1>4. Rest(k, method, Tail(s))
  <2>1. ASSUME NEW i \in 1..Len(Tail(s))
        PROVE  Fits(k, method, Tail(s)[i], After(Tail(s), i))
    <3>1. Fits(k, method, s[i + 1], After(s, i + 1)) /\ Tail(s)[i] = s[i + 1]
          BY <1>1, <1>2, <2>1 DEF Rest
    <3>2. After(s, i + 1) = After(Tail(s), i)
          BY <1>1, <1>2, <2>1 DEF After
    <3> QED
        BY <3>1, <3>2
  <2> QED
      BY <1>1, <2>1 DEF Rest
<1>5. ASSUME Head(s) \notin Effects, Acts(s) PROVE Acts(Tail(s))
  <2>1. PICK i \in 1..Len(s) : s[i] \in Effects
        BY <1>5 DEF Acts
  <2>2. i # 1 /\ i - 1 \in 1..Len(Tail(s)) /\ (i - 1) + 1 = i
        BY <1>1, <1>5, <2>1
  <2>3. Tail(s)[i - 1] \in Effects
        BY <1>2, <2>1, <2>2
  <2> QED
      BY <2>2, <2>3 DEF Acts
<1> QED
    BY <1>3, <1>4, <1>5

\* The scripts of the drivers that add a call to those of Fixed.
LEMMA ConcatThree ==
    <<"insert", "await">> \o <<"get">> = <<"insert", "await", "get">>
<1> DEFINE s == <<"insert", "await", "get">>
           t == <<"insert", "await">> \o <<"get">>
           S == {"insert", "await", "get"}
<1>1. s \in Seq(S) /\ Len(s) = 3 /\ s[1] = "insert" /\ s[2] = "await" /\ s[3] = "get"
      OBVIOUS
<1>2. t \in Seq(S) /\ Len(t) = 3 /\ t[1] = "insert" /\ t[2] = "await" /\ t[3] = "get"
      OBVIOUS
<1> HIDE DEF s, t, S
<1>3. s = t
      BY <1>1, <1>2, SeqEqual
<1> QED
    BY <1>3 DEF s, t

\* A script is sound if each step fits the next, and one has an effect.
Sound(k, method, s) == Rest(k, method, s) /\ Whole(k, method, s)
FitWhole(k, method, x) ==
    k \in {"CloudSQLUser", "CloudSQLDatabase"} => x = "lock"

\* Scripts of one to five steps, step by step.
LEMMA Script1 ==
    ASSUME NEW k, NEW method, NEW a, Fits(k, method, a, "end"),
           a \in Effects, FitWhole(k, method, a)
    PROVE  Sound(k, method, <<a>>)
<1> DEFINE s == <<a>>
<1>1. a \in Steps
      BY DEF Fits
<1>2. s \in Seq(Steps) /\ Len(s) = 1 /\ s[1] = a /\ s # << >> /\ Head(s) = a
      BY <1>1
<1> HIDE DEF s
<1>3. Rest(k, method, s) /\ Whole(k, method, s)
      BY <1>2 DEF Rest, After, Whole, Acts, FitWhole
<1> QED
    BY <1>3 DEF s, Sound

\* Two steps.
LEMMA Script2 ==
    ASSUME NEW k, NEW method, NEW a, NEW b, Fits(k, method, a, b), Fits(k, method, b, "end"),
           {a, b} \cap Effects # {}, FitWhole(k, method, a)
    PROVE  Sound(k, method, <<a, b>>)
<1> DEFINE s == <<a, b>>
<1>1. a \in Steps /\ b \in Steps
      BY DEF Fits
<1>2. s \in Seq(Steps) /\ Len(s) = 2 /\ s[1] = a /\ s[2] = b /\ s # << >> /\ Head(s) = a
      BY <1>1
<1> HIDE DEF s
<1>3. Rest(k, method, s) /\ Whole(k, method, s)
      BY <1>2 DEF Rest, After, Whole, Acts, FitWhole
<1> QED
    BY <1>3 DEF s, Sound

\* Three steps.
LEMMA Script3 ==
    ASSUME NEW k, NEW method, NEW a, NEW b, NEW c,
           Fits(k, method, a, b), Fits(k, method, b, c), Fits(k, method, c, "end"),
           {a, b, c} \cap Effects # {}, FitWhole(k, method, a)
    PROVE  Sound(k, method, <<a, b, c>>)
<1> DEFINE s == <<a, b, c>>
<1>1. a \in Steps /\ b \in Steps /\ c \in Steps
      BY DEF Fits
<1>2. /\ s \in Seq(Steps) /\ Len(s) = 3 /\ s[1] = a /\ s[2] = b /\ s[3] = c
      /\ s # << >> /\ Head(s) = a
      BY <1>1
<1> HIDE DEF s
<1>3. Rest(k, method, s) /\ Whole(k, method, s)
      BY <1>2 DEF Rest, After, Whole, Acts, FitWhole
<1> QED
    BY <1>3 DEF s, Sound

\* Four steps.
LEMMA Script4 ==
    ASSUME NEW k, NEW method, NEW a, NEW b, NEW c, NEW d,
           Fits(k, method, a, b), Fits(k, method, b, c), Fits(k, method, c, d),
           Fits(k, method, d, "end"), {a, b, c, d} \cap Effects # {}, FitWhole(k, method, a)
    PROVE  Sound(k, method, <<a, b, c, d>>)
<1> DEFINE s == <<a, b, c, d>>
<1>1. a \in Steps /\ b \in Steps /\ c \in Steps /\ d \in Steps
      BY DEF Fits
<1>2. /\ s \in Seq(Steps) /\ Len(s) = 4 /\ s[1] = a /\ s[2] = b /\ s[3] = c /\ s[4] = d
      /\ s # << >> /\ Head(s) = a
      BY <1>1
<1> HIDE DEF s
<1>3. Rest(k, method, s) /\ Whole(k, method, s)
      BY <1>2 DEF Rest, After, Whole, Acts, FitWhole
<1> QED
    BY <1>3 DEF s, Sound

\* Five steps.
LEMMA Script5 ==
    ASSUME NEW k, NEW method, NEW a, NEW b, NEW c, NEW d, NEW e,
           Fits(k, method, a, b), Fits(k, method, b, c), Fits(k, method, c, d),
           Fits(k, method, d, e), Fits(k, method, e, "end"),
           {a, b, c, d, e} \cap Effects # {}, FitWhole(k, method, a)
    PROVE  Sound(k, method, <<a, b, c, d, e>>)
<1> DEFINE s == <<a, b, c, d, e>>
<1>1. a \in Steps /\ b \in Steps /\ c \in Steps /\ d \in Steps /\ e \in Steps
      BY DEF Fits
<1>2. /\ s \in Seq(Steps) /\ Len(s) = 5 /\ s[1] = a /\ s[2] = b /\ s[3] = c /\ s[4] = d
      /\ s[5] = e /\ s # << >> /\ Head(s) = a
      BY <1>1
<1> HIDE DEF s
<1>3. Rest(k, method, s) /\ Whole(k, method, s)
      BY <1>2 DEF Rest, After, Whole, Acts, FitWhole
<1> QED
    BY <1>3 DEF s, Sound

\* The kinds of resource.
LEMMA KindsList ==
    Kinds = {"BackendService", "URLMap", "TargetHTTPProxy", "TargetHTTPSProxy",
            "ForwardingRule", "ServerlessNEG", "SelfManagedSSL", "Address",
            "ManagedSSL", "CloudSQL", "CloudSQLUser", "CloudSQLDatabase",
            "CloudRun", "CloudFunction", "Bucket", "RuledBucket", "BucketObject",
            "Image", "CloudSchedulerJob", "NotificationChannel",
            "UptimeCheckConfig", "UptimeAlertPolicy", "APIService"}
BY DEF Kinds, Driver

\* Every script of a driver is sound and whole; an update that is none never runs.
LEMMA Scripts ==
    ASSUME NEW k \in Kinds, NEW method \in Methods, method = "update" => k \notin Replaced
    PROVE  Sound(k, method, Driver[k][method])
<1>1. CASE k \in {"BackendService", "URLMap", "TargetHTTPProxy", "TargetHTTPSProxy",
              "ForwardingRule"}
  <2>a. Driver[k] = Driver["BackendService"]
        BY <1>1 DEF Driver, BackendServiceDriver, URLMapDriver, TargetHTTPProxyDriver,
           TargetHTTPSProxyDriver, ForwardingRuleDriver
  <2>1. /\ Driver[k].create = <<"insert", "await">>
        /\ Driver[k].update = <<"fetch", "patch", "await">>
        /\ Driver[k].delete = <<"remove", "await">>
    <3>1. /\ Driver["BackendService"].create = <<"insert", "await">>
          /\ Driver["BackendService"].update = <<"fetch", "patch", "await">>
          /\ Driver["BackendService"].delete = <<"remove", "await">>
          BY DEF Driver, BackendServiceDriver, Compute
    <3> QED
        BY <2>a, <3>1
  <2>2. CASE method = "create"
    <3>1. /\ Fits(k, method, "insert", "await")
          /\ Fits(k, method, "await", "end")
          /\ {"insert", "await"} \cap Effects # {} /\ FitWhole(k, method, "insert")
          BY <1>1, <2>2 DEF Fits, FitWhole, Steps, OnInstance, Starts, Direct, Effects,
                               PolicySteps, WithPolicy
    <3>2. Sound(k, method, <<"insert", "await">>)
          BY <3>1, Script2
    <3>3. Driver[k][method] = <<"insert", "await">>
          BY <2>1, <2>2
    <3> QED
        BY <3>2, <3>3
  <2>3. CASE method = "update"
    <3>1. /\ Fits(k, method, "fetch", "patch")
          /\ Fits(k, method, "patch", "await")
          /\ Fits(k, method, "await", "end")
          /\ {"fetch", "patch", "await"} \cap Effects # {} /\ FitWhole(k, method, "fetch")
          BY <1>1, <2>3 DEF Fits, FitWhole, Steps, OnInstance, Starts, Direct, Effects,
                               PolicySteps, WithPolicy
    <3>2. Sound(k, method, <<"fetch", "patch", "await">>)
          BY <3>1, Script3
    <3>3. Driver[k][method] = <<"fetch", "patch", "await">>
          BY <2>1, <2>3
    <3> QED
        BY <3>2, <3>3
  <2>4. CASE method = "delete"
    <3>1. /\ Fits(k, method, "remove", "await")
          /\ Fits(k, method, "await", "end")
          /\ {"remove", "await"} \cap Effects # {} /\ FitWhole(k, method, "remove")
          BY <1>1, <2>4 DEF Fits, FitWhole, Steps, OnInstance, Starts, Direct, Effects,
                               PolicySteps, WithPolicy
    <3>2. Sound(k, method, <<"remove", "await">>)
          BY <3>1, Script2
    <3>3. Driver[k][method] = <<"remove", "await">>
          BY <2>1, <2>4
    <3> QED
        BY <3>2, <3>3
  <2> QED
      BY <2>2, <2>3, <2>4 DEF Methods
<1>2. CASE k \in {"ServerlessNEG", "SelfManagedSSL"}
  <2>a. Driver[k] = Driver["ServerlessNEG"]
        BY <1>2 DEF Driver, ServerlessNEGDriver, SelfManagedSSLDriver
  <2>1. /\ Driver[k].create = <<"insert", "await">>
        /\ Driver[k].update = Unimplemented
        /\ Driver[k].delete = <<"remove", "await">>
    <3>1. /\ Driver["ServerlessNEG"].create = <<"insert", "await">>
          /\ Driver["ServerlessNEG"].update = Unimplemented
          /\ Driver["ServerlessNEG"].delete = <<"remove", "await">>
          BY DEF Driver, ServerlessNEGDriver, Fixed, Compute, Unimplemented
    <3> QED
        BY <2>a, <3>1
  <2>2. method # "update"
        BY <2>1 DEF Replaced
  <2>3. CASE method = "create"
    <3>1. /\ Fits(k, method, "insert", "await")
          /\ Fits(k, method, "await", "end")
          /\ {"insert", "await"} \cap Effects # {} /\ FitWhole(k, method, "insert")
          BY <1>2, <2>3 DEF Fits, FitWhole, Steps, OnInstance, Starts, Direct, Effects,
                               PolicySteps, WithPolicy
    <3>2. Sound(k, method, <<"insert", "await">>)
          BY <3>1, Script2
    <3>3. Driver[k][method] = <<"insert", "await">>
          BY <2>1, <2>3
    <3> QED
        BY <3>2, <3>3
  <2>4. CASE method = "delete"
    <3>1. /\ Fits(k, method, "remove", "await")
          /\ Fits(k, method, "await", "end")
          /\ {"remove", "await"} \cap Effects # {} /\ FitWhole(k, method, "remove")
          BY <1>2, <2>4 DEF Fits, FitWhole, Steps, OnInstance, Starts, Direct, Effects,
                               PolicySteps, WithPolicy
    <3>2. Sound(k, method, <<"remove", "await">>)
          BY <3>1, Script2
    <3>3. Driver[k][method] = <<"remove", "await">>
          BY <2>1, <2>4
    <3> QED
        BY <3>2, <3>3
  <2> QED
      BY <2>2, <2>3, <2>4 DEF Methods
<1>3. CASE k \in {"Address", "ManagedSSL"}
  <2>a. Driver[k] = Driver["Address"]
        BY <1>3 DEF Driver, AddressDriver, ManagedSSLDriver
  <2>1. /\ Driver[k].create = <<"insert", "await">> \o <<"get">>
        /\ Driver[k].update = Unimplemented
        /\ Driver[k].delete = <<"remove", "await">>
    <3>1. /\ Driver["Address"].create = <<"insert", "await">> \o <<"get">>
          /\ Driver["Address"].update = Unimplemented
          /\ Driver["Address"].delete = <<"remove", "await">>
          BY DEF Driver, AddressDriver, Fixed, Compute, Unimplemented
    <3> QED
        BY <2>a, <3>1
  <2>2. method # "update"
        BY <2>1 DEF Replaced
  <2>3. CASE method = "create"
    <3>1. /\ Fits(k, method, "insert", "await")
          /\ Fits(k, method, "await", "get")
          /\ Fits(k, method, "get", "end")
          /\ {"insert", "await", "get"} \cap Effects # {} /\ FitWhole(k, method, "insert")
          BY <1>3, <2>3 DEF Fits, FitWhole, Steps, OnInstance, Starts, Direct, Effects,
                               PolicySteps, WithPolicy
    <3>2. Sound(k, method, <<"insert", "await", "get">>)
          BY <3>1, Script3
    <3>3. Driver[k][method] = <<"insert", "await">> \o <<"get">>
          BY <2>1, <2>3
    <3>4. <<"insert", "await">> \o <<"get">> = <<"insert", "await", "get">>
          BY ConcatThree
    <3> QED
        BY <3>2, <3>3, <3>4
  <2>4. CASE method = "delete"
    <3>1. /\ Fits(k, method, "remove", "await")
          /\ Fits(k, method, "await", "end")
          /\ {"remove", "await"} \cap Effects # {} /\ FitWhole(k, method, "remove")
          BY <1>3, <2>4 DEF Fits, FitWhole, Steps, OnInstance, Starts, Direct, Effects,
                               PolicySteps, WithPolicy
    <3>2. Sound(k, method, <<"remove", "await">>)
          BY <3>1, Script2
    <3>3. Driver[k][method] = <<"remove", "await">>
          BY <2>1, <2>4
    <3> QED
        BY <3>2, <3>3
  <2> QED
      BY <2>2, <2>3, <2>4 DEF Methods
<1>4. CASE k \in {"CloudSQL"}
  <2>1. /\ Driver[k].create = <<"insert", "await", "get">>
        /\ Driver[k].update = <<"lock", "fetch", "patch", "await", "get">>
        /\ Driver[k].delete = <<"remove", "await">>
        BY <1>4 DEF Driver, CloudSQLDriver
  <2>2. CASE method = "create"
    <3>1. /\ Fits(k, method, "insert", "await")
          /\ Fits(k, method, "await", "get")
          /\ Fits(k, method, "get", "end")
          /\ {"insert", "await", "get"} \cap Effects # {} /\ FitWhole(k, method, "insert")
          BY <1>4, <2>2 DEF Fits, FitWhole, Steps, OnInstance, Starts, Direct, Effects,
                               PolicySteps, WithPolicy
    <3>2. Sound(k, method, <<"insert", "await", "get">>)
          BY <3>1, Script3
    <3>3. Driver[k][method] = <<"insert", "await", "get">>
          BY <2>1, <2>2
    <3> QED
        BY <3>2, <3>3
  <2>3. CASE method = "update"
    <3>1. /\ Fits(k, method, "lock", "fetch")
          /\ Fits(k, method, "fetch", "patch")
          /\ Fits(k, method, "patch", "await")
          /\ Fits(k, method, "await", "get")
          /\ Fits(k, method, "get", "end")
          /\ {"lock", "fetch", "patch", "await", "get"} \cap Effects # {}
          /\ FitWhole(k, method, "lock")
          BY <1>4, <2>3 DEF Fits, FitWhole, Steps, OnInstance, Starts, Direct, Effects,
                               PolicySteps, WithPolicy
    <3>2. Sound(k, method, <<"lock", "fetch", "patch", "await", "get">>)
          BY <3>1, Script5
    <3>3. Driver[k][method] = <<"lock", "fetch", "patch", "await", "get">>
          BY <2>1, <2>3
    <3> QED
        BY <3>2, <3>3
  <2>4. CASE method = "delete"
    <3>1. /\ Fits(k, method, "remove", "await")
          /\ Fits(k, method, "await", "end")
          /\ {"remove", "await"} \cap Effects # {} /\ FitWhole(k, method, "remove")
          BY <1>4, <2>4 DEF Fits, FitWhole, Steps, OnInstance, Starts, Direct, Effects,
                               PolicySteps, WithPolicy
    <3>2. Sound(k, method, <<"remove", "await">>)
          BY <3>1, Script2
    <3>3. Driver[k][method] = <<"remove", "await">>
          BY <2>1, <2>4
    <3> QED
        BY <3>2, <3>3
  <2> QED
      BY <2>2, <2>3, <2>4 DEF Methods
<1>5. CASE k \in {"CloudSQLUser"}
  <2>1. /\ Driver[k].create = <<"lock", "insert", "await">>
        /\ Driver[k].update = <<"lock", "rewrite", "await">>
        /\ Driver[k].delete = <<"lock", "remove", "await">>
        BY <1>5 DEF Driver, CloudSQLUserDriver
  <2>2. CASE method = "create"
    <3>1. /\ Fits(k, method, "lock", "insert")
          /\ Fits(k, method, "insert", "await")
          /\ Fits(k, method, "await", "end")
          /\ {"lock", "insert", "await"} \cap Effects # {} /\ FitWhole(k, method, "lock")
          BY <1>5, <2>2 DEF Fits, FitWhole, Steps, OnInstance, Starts, Direct, Effects,
                               PolicySteps, WithPolicy
    <3>2. Sound(k, method, <<"lock", "insert", "await">>)
          BY <3>1, Script3
    <3>3. Driver[k][method] = <<"lock", "insert", "await">>
          BY <2>1, <2>2
    <3> QED
        BY <3>2, <3>3
  <2>3. CASE method = "update"
    <3>1. /\ Fits(k, method, "lock", "rewrite")
          /\ Fits(k, method, "rewrite", "await")
          /\ Fits(k, method, "await", "end")
          /\ {"lock", "rewrite", "await"} \cap Effects # {} /\ FitWhole(k, method, "lock")
          BY <1>5, <2>3 DEF Fits, FitWhole, Steps, OnInstance, Starts, Direct, Effects,
                               PolicySteps, WithPolicy
    <3>2. Sound(k, method, <<"lock", "rewrite", "await">>)
          BY <3>1, Script3
    <3>3. Driver[k][method] = <<"lock", "rewrite", "await">>
          BY <2>1, <2>3
    <3> QED
        BY <3>2, <3>3
  <2>4. CASE method = "delete"
    <3>1. /\ Fits(k, method, "lock", "remove")
          /\ Fits(k, method, "remove", "await")
          /\ Fits(k, method, "await", "end")
          /\ {"lock", "remove", "await"} \cap Effects # {} /\ FitWhole(k, method, "lock")
          BY <1>5, <2>4 DEF Fits, FitWhole, Steps, OnInstance, Starts, Direct, Effects,
                               PolicySteps, WithPolicy
    <3>2. Sound(k, method, <<"lock", "remove", "await">>)
          BY <3>1, Script3
    <3>3. Driver[k][method] = <<"lock", "remove", "await">>
          BY <2>1, <2>4
    <3> QED
        BY <3>2, <3>3
  <2> QED
      BY <2>2, <2>3, <2>4 DEF Methods
<1>6. CASE k \in {"CloudSQLDatabase"}
  <2>1. /\ Driver[k].create = <<"lock", "insert", "await">>
        /\ Driver[k].update = Unimplemented
        /\ Driver[k].delete = <<"lock", "remove", "await">>
        BY <1>6 DEF Driver, CloudSQLDatabaseDriver, CloudSQLUserDriver
  <2>2. method # "update"
        BY <2>1 DEF Replaced
  <2>3. CASE method = "create"
    <3>1. /\ Fits(k, method, "lock", "insert")
          /\ Fits(k, method, "insert", "await")
          /\ Fits(k, method, "await", "end")
          /\ {"lock", "insert", "await"} \cap Effects # {} /\ FitWhole(k, method, "lock")
          BY <1>6, <2>3 DEF Fits, FitWhole, Steps, OnInstance, Starts, Direct, Effects,
                               PolicySteps, WithPolicy
    <3>2. Sound(k, method, <<"lock", "insert", "await">>)
          BY <3>1, Script3
    <3>3. Driver[k][method] = <<"lock", "insert", "await">>
          BY <2>1, <2>3
    <3> QED
        BY <3>2, <3>3
  <2>4. CASE method = "delete"
    <3>1. /\ Fits(k, method, "lock", "remove")
          /\ Fits(k, method, "remove", "await")
          /\ Fits(k, method, "await", "end")
          /\ {"lock", "remove", "await"} \cap Effects # {} /\ FitWhole(k, method, "lock")
          BY <1>6, <2>4 DEF Fits, FitWhole, Steps, OnInstance, Starts, Direct, Effects,
                               PolicySteps, WithPolicy
    <3>2. Sound(k, method, <<"lock", "remove", "await">>)
          BY <3>1, Script3
    <3>3. Driver[k][method] = <<"lock", "remove", "await">>
          BY <2>1, <2>4
    <3> QED
        BY <3>2, <3>3
  <2> QED
      BY <2>2, <2>3, <2>4 DEF Methods
<1>7. CASE k \in {"CloudRun"}
  <2>1. /\ Driver[k].create = <<"make", "ready", "policy">>
        /\ Driver[k].update = <<"amend", "ready", "policyIfChanged">>
        /\ Driver[k].delete = <<"remove", "gone">>
        BY <1>7 DEF Driver, CloudRunDriver
  <2>2. CASE method = "create"
    <3>1. /\ Fits(k, method, "make", "ready")
          /\ Fits(k, method, "ready", "policy")
          /\ Fits(k, method, "policy", "end")
          /\ {"make", "ready", "policy"} \cap Effects # {} /\ FitWhole(k, method, "make")
          BY <1>7, <2>2 DEF Fits, FitWhole, Steps, OnInstance, Starts, Direct, Effects,
                               PolicySteps, WithPolicy
    <3>2. Sound(k, method, <<"make", "ready", "policy">>)
          BY <3>1, Script3
    <3>3. Driver[k][method] = <<"make", "ready", "policy">>
          BY <2>1, <2>2
    <3> QED
        BY <3>2, <3>3
  <2>3. CASE method = "update"
    <3>1. /\ Fits(k, method, "amend", "ready")
          /\ Fits(k, method, "ready", "policyIfChanged")
          /\ Fits(k, method, "policyIfChanged", "end")
          /\ {"amend", "ready", "policyIfChanged"} \cap Effects # {} /\ FitWhole(k, method, "amend")
          BY <1>7, <2>3 DEF Fits, FitWhole, Steps, OnInstance, Starts, Direct, Effects,
                               PolicySteps, WithPolicy
    <3>2. Sound(k, method, <<"amend", "ready", "policyIfChanged">>)
          BY <3>1, Script3
    <3>3. Driver[k][method] = <<"amend", "ready", "policyIfChanged">>
          BY <2>1, <2>3
    <3> QED
        BY <3>2, <3>3
  <2>4. CASE method = "delete"
    <3>1. /\ Fits(k, method, "remove", "gone")
          /\ Fits(k, method, "gone", "end")
          /\ {"remove", "gone"} \cap Effects # {} /\ FitWhole(k, method, "remove")
          BY <1>7, <2>4 DEF Fits, FitWhole, Steps, OnInstance, Starts, Direct, Effects,
                               PolicySteps, WithPolicy
    <3>2. Sound(k, method, <<"remove", "gone">>)
          BY <3>1, Script2
    <3>3. Driver[k][method] = <<"remove", "gone">>
          BY <2>1, <2>4
    <3> QED
        BY <3>2, <3>3
  <2> QED
      BY <2>2, <2>3, <2>4 DEF Methods
<1>8. CASE k \in {"CloudFunction"}
  <2>1. /\ Driver[k].create = <<"insert", "settle", "get", "policyIfPublic">>
        /\ Driver[k].update = <<"rewrite", "settle", "get", "policy">>
        /\ Driver[k].delete = <<"remove", "await">>
        BY <1>8 DEF Driver, CloudFunctionDriver
  <2>2. CASE method = "create"
    <3>1. /\ Fits(k, method, "insert", "settle")
          /\ Fits(k, method, "settle", "get")
          /\ Fits(k, method, "get", "policyIfPublic")
          /\ Fits(k, method, "policyIfPublic", "end")
          /\ {"insert", "settle", "get", "policyIfPublic"} \cap Effects # {}
          /\ FitWhole(k, method, "insert")
          BY <1>8, <2>2 DEF Fits, FitWhole, Steps, OnInstance, Starts, Direct, Effects,
                               PolicySteps, WithPolicy
    <3>2. Sound(k, method, <<"insert", "settle", "get", "policyIfPublic">>)
          BY <3>1, Script4
    <3>3. Driver[k][method] = <<"insert", "settle", "get", "policyIfPublic">>
          BY <2>1, <2>2
    <3> QED
        BY <3>2, <3>3
  <2>3. CASE method = "update"
    <3>1. /\ Fits(k, method, "rewrite", "settle")
          /\ Fits(k, method, "settle", "get")
          /\ Fits(k, method, "get", "policy")
          /\ Fits(k, method, "policy", "end")
          /\ {"rewrite", "settle", "get", "policy"} \cap Effects # {}
          /\ FitWhole(k, method, "rewrite")
          BY <1>8, <2>3 DEF Fits, FitWhole, Steps, OnInstance, Starts, Direct, Effects,
                               PolicySteps, WithPolicy
    <3>2. Sound(k, method, <<"rewrite", "settle", "get", "policy">>)
          BY <3>1, Script4
    <3>3. Driver[k][method] = <<"rewrite", "settle", "get", "policy">>
          BY <2>1, <2>3
    <3> QED
        BY <3>2, <3>3
  <2>4. CASE method = "delete"
    <3>1. /\ Fits(k, method, "remove", "await")
          /\ Fits(k, method, "await", "end")
          /\ {"remove", "await"} \cap Effects # {} /\ FitWhole(k, method, "remove")
          BY <1>8, <2>4 DEF Fits, FitWhole, Steps, OnInstance, Starts, Direct, Effects,
                               PolicySteps, WithPolicy
    <3>2. Sound(k, method, <<"remove", "await">>)
          BY <3>1, Script2
    <3>3. Driver[k][method] = <<"remove", "await">>
          BY <2>1, <2>4
    <3> QED
        BY <3>2, <3>3
  <2> QED
      BY <2>2, <2>3, <2>4 DEF Methods
<1>9. CASE k \in {"Bucket", "RuledBucket"}
  <2>a. Driver[k] = Driver["Bucket"]
        BY <1>9 DEF Driver, BucketDriver
  <2>1. /\ Driver[k].create = <<"make", "policyIfPublic">>
        /\ Driver[k].update = <<"amend", "policyIfChanged">>
        /\ Driver[k].delete = <<"empty", "drop">>
    <3>1. /\ Driver["Bucket"].create = <<"make", "policyIfPublic">>
          /\ Driver["Bucket"].update = <<"amend", "policyIfChanged">>
          /\ Driver["Bucket"].delete = <<"empty", "drop">>
          BY DEF Driver, BucketDriver
    <3> QED
        BY <2>a, <3>1
  <2>2. CASE method = "create"
    <3>1. /\ Fits(k, method, "make", "policyIfPublic")
          /\ Fits(k, method, "policyIfPublic", "end")
          /\ {"make", "policyIfPublic"} \cap Effects # {} /\ FitWhole(k, method, "make")
          BY <1>9, <2>2 DEF Fits, FitWhole, Steps, OnInstance, Starts, Direct, Effects,
                               PolicySteps, WithPolicy
    <3>2. Sound(k, method, <<"make", "policyIfPublic">>)
          BY <3>1, Script2
    <3>3. Driver[k][method] = <<"make", "policyIfPublic">>
          BY <2>1, <2>2
    <3> QED
        BY <3>2, <3>3
  <2>3. CASE method = "update"
    <3>1. /\ Fits(k, method, "amend", "policyIfChanged")
          /\ Fits(k, method, "policyIfChanged", "end")
          /\ {"amend", "policyIfChanged"} \cap Effects # {} /\ FitWhole(k, method, "amend")
          BY <1>9, <2>3 DEF Fits, FitWhole, Steps, OnInstance, Starts, Direct, Effects,
                               PolicySteps, WithPolicy
    <3>2. Sound(k, method, <<"amend", "policyIfChanged">>)
          BY <3>1, Script2
    <3>3. Driver[k][method] = <<"amend", "policyIfChanged">>
          BY <2>1, <2>3
    <3> QED
        BY <3>2, <3>3
  <2>4. CASE method = "delete"
    <3>1. /\ Fits(k, method, "empty", "drop")
          /\ Fits(k, method, "drop", "end")
          /\ {"empty", "drop"} \cap Effects # {} /\ FitWhole(k, method, "empty")
          BY <1>9, <2>4 DEF Fits, FitWhole, Steps, OnInstance, Starts, Direct, Effects,
                               PolicySteps, WithPolicy
    <3>2. Sound(k, method, <<"empty", "drop">>)
          BY <3>1, Script2
    <3>3. Driver[k][method] = <<"empty", "drop">>
          BY <2>1, <2>4
    <3> QED
        BY <3>2, <3>3
  <2> QED
      BY <2>2, <2>3, <2>4 DEF Methods
<1>10. CASE k \in {"BucketObject"}
  <2>1. /\ Driver[k].create = <<"put">>
        /\ Driver[k].update = <<"put">>
        /\ Driver[k].delete = <<"drop">>
        BY <1>10 DEF Driver, BucketObjectDriver
  <2>2. CASE method = "create"
    <3>1. /\ Fits(k, method, "put", "end")
          /\ {"put"} \cap Effects # {} /\ FitWhole(k, method, "put")
          BY <1>10, <2>2 DEF Fits, FitWhole, Steps, OnInstance, Starts, Direct, Effects,
                               PolicySteps, WithPolicy
    <3>2. Sound(k, method, <<"put">>)
          BY <3>1, Script1
    <3>3. Driver[k][method] = <<"put">>
          BY <2>1, <2>2
    <3> QED
        BY <3>2, <3>3
  <2>3. CASE method = "update"
    <3>1. /\ Fits(k, method, "put", "end")
          /\ {"put"} \cap Effects # {} /\ FitWhole(k, method, "put")
          BY <1>10, <2>3 DEF Fits, FitWhole, Steps, OnInstance, Starts, Direct, Effects,
                               PolicySteps, WithPolicy
    <3>2. Sound(k, method, <<"put">>)
          BY <3>1, Script1
    <3>3. Driver[k][method] = <<"put">>
          BY <2>1, <2>3
    <3> QED
        BY <3>2, <3>3
  <2>4. CASE method = "delete"
    <3>1. /\ Fits(k, method, "drop", "end")
          /\ {"drop"} \cap Effects # {} /\ FitWhole(k, method, "drop")
          BY <1>10, <2>4 DEF Fits, FitWhole, Steps, OnInstance, Starts, Direct, Effects,
                               PolicySteps, WithPolicy
    <3>2. Sound(k, method, <<"drop">>)
          BY <3>1, Script1
    <3>3. Driver[k][method] = <<"drop">>
          BY <2>1, <2>4
    <3> QED
        BY <3>2, <3>3
  <2> QED
      BY <2>2, <2>3, <2>4 DEF Methods
<1>11. CASE k \in {"Image"}
  <2>1. /\ Driver[k].create = <<"repository", "put">>
        /\ Driver[k].update = <<"repository", "put", "dropOld">>
        /\ Driver[k].delete = <<"drop", "dropVersion">>
        BY <1>11 DEF Driver, ImageDriver
  <2>2. CASE method = "create"
    <3>1. /\ Fits(k, method, "repository", "put")
          /\ Fits(k, method, "put", "end")
          /\ {"repository", "put"} \cap Effects # {} /\ FitWhole(k, method, "repository")
          BY <1>11, <2>2 DEF Fits, FitWhole, Steps, OnInstance, Starts, Direct, Effects,
                               PolicySteps, WithPolicy
    <3>2. Sound(k, method, <<"repository", "put">>)
          BY <3>1, Script2
    <3>3. Driver[k][method] = <<"repository", "put">>
          BY <2>1, <2>2
    <3> QED
        BY <3>2, <3>3
  <2>3. CASE method = "update"
    <3>1. /\ Fits(k, method, "repository", "put")
          /\ Fits(k, method, "put", "dropOld")
          /\ Fits(k, method, "dropOld", "end")
          /\ {"repository", "put", "dropOld"} \cap Effects # {} /\ FitWhole(k, method, "repository")
          BY <1>11, <2>3 DEF Fits, FitWhole, Steps, OnInstance, Starts, Direct, Effects,
                               PolicySteps, WithPolicy
    <3>2. Sound(k, method, <<"repository", "put", "dropOld">>)
          BY <3>1, Script3
    <3>3. Driver[k][method] = <<"repository", "put", "dropOld">>
          BY <2>1, <2>3
    <3> QED
        BY <3>2, <3>3
  <2>4. CASE method = "delete"
    <3>1. /\ Fits(k, method, "drop", "dropVersion")
          /\ Fits(k, method, "dropVersion", "end")
          /\ {"drop", "dropVersion"} \cap Effects # {} /\ FitWhole(k, method, "drop")
          BY <1>11, <2>4 DEF Fits, FitWhole, Steps, OnInstance, Starts, Direct, Effects,
                               PolicySteps, WithPolicy
    <3>2. Sound(k, method, <<"drop", "dropVersion">>)
          BY <3>1, Script2
    <3>3. Driver[k][method] = <<"drop", "dropVersion">>
          BY <2>1, <2>4
    <3> QED
        BY <3>2, <3>3
  <2> QED
      BY <2>2, <2>3, <2>4 DEF Methods
<1>12. CASE k \in {"CloudSchedulerJob", "NotificationChannel", "UptimeCheckConfig",
              "UptimeAlertPolicy"}
  <2>1. /\ Driver[k].create = <<"make">>
        /\ Driver[k].update = <<"amend">>
        /\ Driver[k].delete = <<"drop">>
        BY <1>12 DEF Driver, CloudSchedulerJobDriver, NotificationChannelDriver,
           UptimeCheckConfigDriver, UptimeAlertPolicyDriver, Monitored, Plain
  <2>2. CASE method = "create"
    <3>1. /\ Fits(k, method, "make", "end")
          /\ {"make"} \cap Effects # {} /\ FitWhole(k, method, "make")
          BY <1>12, <2>2 DEF Fits, FitWhole, Steps, OnInstance, Starts, Direct, Effects,
                               PolicySteps, WithPolicy
    <3>2. Sound(k, method, <<"make">>)
          BY <3>1, Script1
    <3>3. Driver[k][method] = <<"make">>
          BY <2>1, <2>2
    <3> QED
        BY <3>2, <3>3
  <2>3. CASE method = "update"
    <3>1. /\ Fits(k, method, "amend", "end")
          /\ {"amend"} \cap Effects # {} /\ FitWhole(k, method, "amend")
          BY <1>12, <2>3 DEF Fits, FitWhole, Steps, OnInstance, Starts, Direct, Effects,
                               PolicySteps, WithPolicy
    <3>2. Sound(k, method, <<"amend">>)
          BY <3>1, Script1
    <3>3. Driver[k][method] = <<"amend">>
          BY <2>1, <2>3
    <3> QED
        BY <3>2, <3>3
  <2>4. CASE method = "delete"
    <3>1. /\ Fits(k, method, "drop", "end")
          /\ {"drop"} \cap Effects # {} /\ FitWhole(k, method, "drop")
          BY <1>12, <2>4 DEF Fits, FitWhole, Steps, OnInstance, Starts, Direct, Effects,
                               PolicySteps, WithPolicy
    <3>2. Sound(k, method, <<"drop">>)
          BY <3>1, Script1
    <3>3. Driver[k][method] = <<"drop">>
          BY <2>1, <2>4
    <3> QED
        BY <3>2, <3>3
  <2> QED
      BY <2>2, <2>3, <2>4 DEF Methods
<1>13. CASE k \in {"APIService"}
  <2>1. /\ Driver[k].create = <<"insert", "await">>
        /\ Driver[k].update = Unimplemented
        /\ Driver[k].delete = << >>
        BY <1>13 DEF Driver, APIServiceDriver
  <2>2. method # "update"
        BY <2>1 DEF Replaced
  <2>3. CASE method = "create"
    <3>1. /\ Fits(k, method, "insert", "await")
          /\ Fits(k, method, "await", "end")
          /\ {"insert", "await"} \cap Effects # {} /\ FitWhole(k, method, "insert")
          BY <1>13, <2>3 DEF Fits, FitWhole, Steps, OnInstance, Starts, Direct, Effects,
                               PolicySteps, WithPolicy
    <3>2. Sound(k, method, <<"insert", "await">>)
          BY <3>1, Script2
    <3>3. Driver[k][method] = <<"insert", "await">>
          BY <2>1, <2>3
    <3> QED
        BY <3>2, <3>3
  <2>4. CASE method = "delete"
    <3>1. Sound(k, method, << >>)
          BY <1>13, <2>4 DEF Sound, Rest, Whole
    <3> QED
        BY <2>1, <2>4, <3>1
  <2> QED
      BY <2>2, <2>3, <2>4 DEF Methods
<1> QED
    BY KindsList, <1>1, <1>2, <1>3, <1>4, <1>5, <1>6, <1>7, <1>8, <1>9, <1>10, <1>11, <1>12, <1>13

----------------------------------------------------------------------------
(* The invariant, one resource at a time *)

Running == {"insert", "rewrite", "remove"}
Works(r) == m[r] \in {"create", "update"}
NextIn(r, S) == todo[r] # << >> /\ Head(todo[r]) \in S

\* Which method runs, and how far it is: Create has nothing to read, Update is
\* of a driver that has one, and what is wanted is only deleted to be replaced.
Course(r) ==
    m[r] \in Methods =>
        /\ Rest(kind[r], m[r], todo[r])
        /\ m[r] = "update" => kind[r] \notin Replaced
        /\ m[r] = "delete" /\ goal = "new" => kind[r] \in Replaced
        /\ m[r] = "create" => record[r] = "none"
        /\ goal = "none" => m[r] = "delete"

\* Until something fails, an operation on an SQL instance has its method
\* waiting for it, and that of a user or of a database has the mutex.
Apart(r) ==
    /\ faults = 0 /\ kind[r] \in OnInstance /\ job[r] \in Running =>
          m[r] \in Methods /\ NextIn(r, {"await"})
    /\ kind[r] \in {"CloudSQLUser", "CloudSQLDatabase"} /\ m[r] \in Methods
          /\ todo[r] # << >> /\ Head(todo[r]) # "lock" => mutex = r

\* The operations there can be.
Operations(r) ==
    /\ kind[r] \in Direct => job[r] = "none" \/ (kind[r] = "Image" /\ job[r] = "failed")
    /\ job[r] = "failed" => faults > 0
    /\ job[r] \in {"rewrite", "remove"} => cfg[r] # "none"
    /\ job[r] = "remove" /\ goal = "new" => kind[r] \in Replaced
    /\ kind[r] = "APIService" =>
          cfg[r] \in {"none", "new"} /\ (cfg[r] # "none" => job[r] = "none")

\* A method past its effect has it, or waits for the operation that brings it,
\* or will see that it failed.
Effective(r) ==
    ~edited[r] /\ ~Overclaims(r) /\ ~Acts(todo[r]) =>
        /\ Works(r) =>
              \/ job[r] = "none" /\ cfg[r] = "new"
              \/ job[r] \in {"insert", "rewrite"} /\ NextIn(r, {"await", "settle", "ready"})
              \/ job[r] = "failed" /\ NextIn(r, {"await"})
        /\ goal = "none" /\ m[r] = "delete" =>
              \/ job[r] \in {"none", "failed"} /\ cfg[r] = "none"
              \/ job[r] = "remove" /\ NextIn(r, {"await", "gone"})
              \/ job[r] = "failed" /\ NextIn(r, {"await"})

\* The policy known is the one there is, but for one just set.
Public(r) ==
    /\ wantPub[r] \/ pub[r] => kind[r] \in WithPolicy
    /\ cfg[r] = "none" => ~pub[r]
    /\ record[r] = "none" => ~recPub[r]
    /\ saved[r].cfg = "none" => ~saved[r].pub
    /\ goal = "new" /\ kind[r] \in WithPolicy /\ ~edited[r] =>
          IF Works(r) /\ todo[r] = << >> THEN pub[r] = wantPub[r] ELSE recPub[r] = pub[r]

\* The fingerprint that an Update sends is that of what was read.
Prints(r) ==
    reads /\ kind[r] \in Fingerprinted =>
        /\ m[r] = "diff" /\ record[r] # "none" => fp[r] # "none"
        /\ m[r] = "update" => fp[r] # "none"
        /\ edited[r] /\ m[r] \in {"diff", "update"} => fp[r] # "fresh"

Local(r) == Course(r) /\ Apart(r) /\ Operations(r) /\ Effective(r) /\ Public(r) /\ Prints(r)
DrvInv == TypeOK /\ OneAtATime /\ \A r \in Used : Local(r)

----------------------------------------------------------------------------
(* Types *)

GivenTyped ==
    /\ kind \in Assignments /\ goal \in {"new", "none"} /\ reads \in BOOLEAN
    /\ wantPub \in [Used -> BOOLEAN]
CloudTyped ==
    /\ cfg \in [Used -> Configs] /\ pub \in [Used -> BOOLEAN]
    /\ job \in [Used -> {"none", "failed", "insert", "rewrite", "remove"}]
    /\ fp \in [Used -> {"none", "fresh", "stale"}]
KnownTyped ==
    /\ record \in [Used -> Configs] /\ recPub \in [Used -> BOOLEAN]
    /\ saved \in [Used -> [cfg : Configs, pub : BOOLEAN]]
    /\ edited \in [Used -> BOOLEAN]
WorkTyped ==
    /\ m \in [Used -> Methods \cup {"idle", "read", "diff", "unread", "end"}]
    /\ todo \in [Used -> Seq(Steps)]
    /\ result \in [Used -> {"none", "ok", "error"}]
    /\ mutex \in Used \cup {None}
    /\ mutex # None => m[mutex] \in Methods /\ kind[mutex] \in OnInstance
CountsTyped ==
    /\ refused \in BOOLEAN /\ faults \in 0..MaxFaults /\ edits \in 0..MaxEdits

\* The type invariant, by the parts that actions change.
LEMMA TypeParts ==
    TypeOK <=> GivenTyped /\ CloudTyped /\ KnownTyped /\ WorkTyped /\ CountsTyped
BY DEF TypeOK, GivenTyped, CloudTyped, KnownTyped, WorkTyped, CountsTyped

\* The same after a step.
LEMMA TypePartsNext ==
    (GivenTyped /\ CloudTyped /\ KnownTyped /\ WorkTyped /\ CountsTyped)' => TypeOK'
BY DEF TypeOK, GivenTyped, CloudTyped, KnownTyped, WorkTyped, CountsTyped

\* What the assumption says of the assignment chosen.
LEMMA KindFacts ==
    ASSUME GivenTyped
    PROVE  /\ kind \in [Used -> Kinds] /\ None \notin Used /\ Used \subseteq Res
           /\ \A q, r \in Used : q # r /\ {kind[q], kind[r]} \subseteq OnInstance
                 => "CloudSQL" \notin {kind[q], kind[r]}
BY DriversAssumption DEF DriversAssumption, GivenTyped, Used

\* No driver with a policy replaces its resource or sends a fingerprint.
LEMMA KindSets ==
    /\ WithPolicy \cap Replaced = {} /\ WithPolicy \cap Fingerprinted = {}
    /\ ServerNamed \cap Fingerprinted = {}
<1>1. ServerNamed \cap Fingerprinted = {}
      BY DEF ServerNamed, Fingerprinted
<1>2. WithPolicy \cap Fingerprinted = {}
      BY DEF WithPolicy, Fingerprinted, Driver, CloudRunDriver, CloudFunctionDriver, BucketDriver
<1>3. WithPolicy \cap Replaced = {}
  <2>1. Driver["CloudRun"].update # Unimplemented
        BY DEF Driver, CloudRunDriver, Unimplemented
  <2>2. Driver["CloudFunction"].update # Unimplemented
        BY DEF Driver, CloudFunctionDriver, Unimplemented
  <2>3. Driver["Bucket"].update # Unimplemented /\ Driver["RuledBucket"].update # Unimplemented
        BY DEF Driver, BucketDriver, Unimplemented
  <2> QED
      BY <2>1, <2>2, <2>3 DEF WithPolicy, Replaced
<1> QED
    BY <1>1, <1>2, <1>3

----------------------------------------------------------------------------
(* What a step leaves alone *)

Others(r) == Used \ {r}
CloudKept(q) == cfg'[q] = cfg[q] /\ pub'[q] = pub[q] /\ job'[q] = job[q]
KnownKept(q) ==
    /\ record'[q] = record[q] /\ recPub'[q] = recPub[q] /\ saved'[q] = saved[q]
    /\ edited'[q] = edited[q]
WorkKept(q) ==
    /\ m'[q] = m[q] /\ todo'[q] = todo[q] /\ result'[q] = result[q]
    /\ mutex = q => mutex' = q
Kept(q) == CloudKept(q) /\ fp'[q] = fp[q] /\ KnownKept(q) /\ WorkKept(q)

\* A resource that a step leaves alone stays in the invariant.
LEMMA Still ==
    ASSUME NEW q \in Used, UNCHANGED given, CountsTyped, CountsTyped', faults' >= faults,
           Kept(q), Local(q)
    PROVE  Local(q)'
<1>1. faults \in Nat /\ faults' \in Nat
      BY DriversAssumption DEF CountsTyped, DriversAssumption
<1>2. /\ kind' = kind /\ goal' = goal /\ reads' = reads /\ wantPub' = wantPub
      /\ cfg'[q] = cfg[q] /\ pub'[q] = pub[q] /\ job'[q] = job[q]
      /\ record'[q] = record[q] /\ recPub'[q] = recPub[q] /\ saved'[q] = saved[q]
      /\ edited'[q] = edited[q] /\ m'[q] = m[q] /\ todo'[q] = todo[q]
      /\ mutex = q => mutex' = q
      /\ fp'[q] = fp[q]
      BY DEF given, Kept, CloudKept, KnownKept, WorkKept
<1>3. Course(q)'
      BY <1>2 DEF Course, Local
<1>4. Apart(q)'
      BY <1>1, <1>2 DEF Apart, NextIn, Local
<1>5. Operations(q)'
      BY <1>1, <1>2 DEF Operations, Local
<1>6. Effective(q)'
      BY <1>1, <1>2 DEF Effective, Overclaims, Unheeded, NextIn, Works, Local
<1>7. Public(q)'
      BY <1>2 DEF Public, Works, Local
<1>8. Prints(q)'
      BY <1>2 DEF Prints, Local
<1> QED
    BY <1>3, <1>4, <1>5, <1>6, <1>7, <1>8 DEF Local

\* Advance keeps the types, and the work of the others.
LEMMA Advances ==
    ASSUME NEW r \in Used, GivenTyped, WorkTyped, UNCHANGED given,
           todo[r] # << >>, Advance(r)
    PROVE  /\ WorkTyped' /\ m'[r] = m[r] /\ todo'[r] = Tail(todo[r]) /\ mutex' = mutex
           /\ \A q \in Others(r) : WorkKept(q)
<1>1. Used' = Used /\ kind' = kind
      BY DEF given, Used
<1>2. m' = m /\ result' = result /\ mutex' = mutex /\ todo' = [todo EXCEPT ![r] = Tail(@)]
      BY DEF Advance
<1>3. Tail(todo[r]) \in Seq(Steps)
      BY DEF WorkTyped
<1>4. todo' \in [Used -> Seq(Steps)] /\ todo'[r] = Tail(todo[r])
      BY <1>2, <1>3 DEF WorkTyped
<1>5. WorkTyped'
      BY <1>1, <1>2, <1>4 DEF WorkTyped
<1>6. \A q \in Others(r) : WorkKept(q)
      BY <1>2 DEF WorkTyped, Others, WorkKept
<1> QED
    BY <1>2, <1>4, <1>5, <1>6

\* Fail keeps the types, and gives the mutex back.
LEMMA Fails ==
    ASSUME NEW r \in Used, GivenTyped, WorkTyped, UNCHANGED given, Fail(r)
    PROVE  /\ WorkTyped' /\ m'[r] = "end" /\ todo'[r] = << >>
           /\ \A q \in Others(r) : WorkKept(q)
<1>1. Used' = Used /\ kind' = kind /\ None \notin Used
      BY KindFacts DEF given, Used
<1>2. /\ m' = [m EXCEPT ![r] = "end"] /\ result' = [result EXCEPT ![r] = "error"]
      /\ todo' = [todo EXCEPT ![r] = << >>]
      /\ mutex' = IF mutex = r THEN None ELSE mutex
      BY DEF Fail, Unlock
<1>3. m' \in [Used -> Methods \cup {"idle", "read", "diff", "unread", "end"}] /\ m'[r] = "end"
      BY <1>2 DEF WorkTyped
<1>4. todo' \in [Used -> Seq(Steps)] /\ todo'[r] = << >>
      BY <1>2 DEF WorkTyped
<1>5. result' \in [Used -> {"none", "ok", "error"}]
      BY <1>2 DEF WorkTyped
<1>6. /\ mutex' \in Used \cup {None}
      /\ mutex' # None => m'[mutex'] \in Methods /\ kind[mutex'] \in OnInstance
      BY <1>1, <1>2 DEF WorkTyped
<1>7. WorkTyped'
      BY <1>1, <1>3, <1>4, <1>5, <1>6 DEF WorkTyped
<1>8. \A q \in Others(r) : WorkKept(q)
      BY <1>2 DEF WorkTyped, Others, WorkKept
<1> QED
    BY <1>3, <1>4, <1>7, <1>8

\* What Set does; c is what is written.
LEMMA Sets ==
    ASSUME NEW r \in Used, CloudTyped, NEW c \in Configs,
           Set(r, c) \/ Touch(r, c)
    PROVE  /\ cfg' \in [Used -> Configs] /\ cfg'[r] = c
           /\ fp' \in [Used -> {"none", "fresh", "stale"}]
           /\ fp'[r] = fp[r] \/ (fp[r] = "fresh" /\ fp'[r] = "stale")
           /\ Touch(r, c) => fp'[r] # "fresh"
           /\ \A q \in Others(r) : cfg'[q] = cfg[q] /\ fp'[q] = fp[q]
<1>1. cfg' = [cfg EXCEPT ![r] = c]
      BY DEF Set, Touch
<1>2. cfg' \in [Used -> Configs] /\ cfg'[r] = c /\ \A q \in Others(r) : cfg'[q] = cfg[q]
      BY <1>1 DEF CloudTyped, Others
<1>3. PICK x \in {"none", "fresh", "stale"} :
          /\ fp' = [fp EXCEPT ![r] = x]
          /\ x = fp[r] \/ (fp[r] = "fresh" /\ x = "stale")
          /\ Touch(r, c) => x # "fresh"
  <2>1. CASE Touch(r, c)
        BY <2>1 DEF Touch, CloudTyped
  <2>2. CASE Set(r, c) /\ ~Touch(r, c)
        BY <2>2 DEF Set, CloudTyped
  <2> QED
      BY <2>1, <2>2
<1>4. fp' \in [Used -> {"none", "fresh", "stale"}] /\ fp'[r] = x
      /\ \A q \in Others(r) : fp'[q] = fp[q]
      BY <1>3 DEF CloudTyped, Others
<1> QED
    BY <1>2, <1>3, <1>4

----------------------------------------------------------------------------
(* What each kind of step does to the resource it is about *)

Following(s) == IF Tail(s) = << >> THEN "end" ELSE Head(Tail(s))

\* What is known of a method under way: the step it is at fits the next one,
\* which fits what follows.
LEMMA Underway ==
    ASSUME NEW r \in Used, GivenTyped, Local(r), m[r] \in Methods, todo[r] # << >>
    PROVE  /\ Fits(kind[r], m[r], Head(todo[r]), Following(todo[r]))
           /\ Tail(todo[r]) # << >> =>
                 /\ Following(todo[r]) = Head(Tail(todo[r]))
                 /\ \E y : Fits(kind[r], m[r], Following(todo[r]), y)
           /\ Rest(kind[r], m[r], Tail(todo[r]))
           /\ Head(todo[r]) \notin Effects /\ Acts(todo[r]) => Acts(Tail(todo[r]))
<1>1. Rest(kind[r], m[r], todo[r])
      BY DEF Local, Course
<1>2. /\ Fits(kind[r], m[r], Head(todo[r]), Following(todo[r]))
      /\ Rest(kind[r], m[r], Tail(todo[r]))
      /\ Head(todo[r]) \notin Effects /\ Acts(todo[r]) => Acts(Tail(todo[r]))
      BY <1>1, RestTail DEF Following
<1>3. ASSUME Tail(todo[r]) # << >>
      PROVE  /\ Following(todo[r]) = Head(Tail(todo[r]))
             /\ \E y : Fits(kind[r], m[r], Following(todo[r]), y)
  <2>1. Following(todo[r]) = Head(Tail(todo[r]))
        BY <1>3 DEF Following
  <2>2. \E y : Fits(kind[r], m[r], Head(Tail(todo[r])), y)
        BY <1>2, <1>3, RestTail
  <2> QED
      BY <2>1, <2>2
<1> QED
    BY <1>2, <1>3

\* A method that ends in an error.
LEMMA Failing ==
    ASSUME NEW r \in Used, UNCHANGED given, CountsTyped, CountsTyped', Local(r),
           faults' >= faults, m[r] \in Methods, todo[r] # << >>, m'[r] = "end",
           CloudKept(r), KnownKept(r),
           faults' > 0 \/ Head(todo[r]) # "await" \/ job[r] \notin Running
    PROVE  Local(r)'
<1>1. faults \in Nat /\ faults' \in Nat
      BY DriversAssumption DEF CountsTyped, DriversAssumption
<1>2. /\ kind' = kind /\ goal' = goal /\ reads' = reads /\ wantPub' = wantPub
      /\ cfg'[r] = cfg[r] /\ pub'[r] = pub[r] /\ job'[r] = job[r]
      /\ record'[r] = record[r] /\ recPub'[r] = recPub[r] /\ saved'[r] = saved[r]
      /\ edited'[r] = edited[r]
      BY DEF given, CloudKept, KnownKept
<1>3. Course(r)' /\ Effective(r)' /\ Prints(r)'
      BY DEF Course, Effective, Prints, Works, Methods
<1>4. Apart(r)'
      BY <1>1, <1>2 DEF Apart, NextIn, Local, Methods
<1>5. Operations(r)'
      BY <1>1, <1>2 DEF Operations, Local
<1>6. Public(r)'
      BY <1>2 DEF Public, Works, Local
<1> QED
    BY <1>3, <1>4, <1>5, <1>6 DEF Local

\* A step without an effect of its own: its operation, if it waits for one, is over.
LEMMA Advancing ==
    ASSUME NEW r \in Used, UNCHANGED given, GivenTyped, CountsTyped, CountsTyped', CloudTyped,
           Local(r), faults' >= faults,
           m[r] \in Methods, todo[r] # << >>, m'[r] = m[r], todo'[r] = Tail(todo[r]),
           CloudKept(r), KnownKept(r), mutex = r => mutex' = r,
           Head(todo[r]) = "lock" => mutex' = r,
           fp[r] # "none" => fp'[r] \in {fp[r], "stale"},
           Head(todo[r]) \notin PolicySteps,
           \/ kind[r] \in EarlyDone /\ faults' > 0 /\ Head(todo[r]) # "await"
           \/ /\ Head(todo[r]) \notin Effects
              /\ Head(todo[r]) = "await" => Fine(r)
              /\ Head(todo[r]) \in {"settle", "ready", "gone"} => Over(r)
           \/ Head(todo[r]) = "insert" /\ kind[r] = "APIService" /\ cfg[r] # "none"
    PROVE  Local(r)'
<1>1. faults \in Nat /\ faults' \in Nat
      BY DriversAssumption DEF CountsTyped, DriversAssumption
<1>2. /\ kind' = kind /\ goal' = goal /\ reads' = reads /\ wantPub' = wantPub
      /\ cfg'[r] = cfg[r] /\ pub'[r] = pub[r] /\ job'[r] = job[r]
      /\ record'[r] = record[r] /\ recPub'[r] = recPub[r] /\ saved'[r] = saved[r]
      /\ edited'[r] = edited[r]
      BY DEF given, CloudKept, KnownKept
<1>3. /\ Fits(kind[r], m[r], Head(todo[r]), Following(todo[r]))
      /\ Tail(todo[r]) # << >> =>
            /\ Following(todo[r]) = Head(Tail(todo[r]))
            /\ \E y : Fits(kind[r], m[r], Following(todo[r]), y)
      /\ Rest(kind[r], m[r], Tail(todo[r]))
      /\ Head(todo[r]) \notin Effects /\ Acts(todo[r]) => Acts(Tail(todo[r]))
      BY Underway
<1>4. Course(r)'
      BY <1>2, <1>3 DEF Course, Local
<1>5. Apart(r)'
  <2>1. faults' = 0 /\ kind[r] \in OnInstance /\ job[r] \in Running => FALSE
    <3>1. SUFFICES ASSUME faults' = 0, kind[r] \in OnInstance, job[r] \in Running PROVE FALSE
          OBVIOUS
    <3>2. Head(todo[r]) = "await"
          BY <1>1, <3>1 DEF Local, Apart, NextIn
    <3> QED
        BY <1>1, <3>1, <3>2 DEF Fine, Running
  <2>2. kind[r] \in {"CloudSQLUser", "CloudSQLDatabase"} => mutex' = r
        BY DEF Local, Apart
  <2> QED
      BY <1>2, <2>1, <2>2 DEF Apart
<1>6. Operations(r)'
      BY <1>1, <1>2 DEF Operations, Local
<1>7. Effective(r)'
  <2>1. SUFFICES ASSUME ~edited[r], ~Overclaims(r)', ~Acts(Tail(todo[r]))
                 PROVE  /\ Works(r) => job[r] = "none" /\ cfg[r] = "new"
                        /\ goal = "none" /\ m[r] = "delete" =>
                              job[r] \in {"none", "failed"} /\ cfg[r] = "none"
        BY <1>2 DEF Effective, Works
  <2>2. ~Overclaims(r) /\ ~(kind[r] \in EarlyDone /\ faults' > 0)
        BY <1>1, <1>2, <2>1 DEF Overclaims, Unheeded
  <2>3. CASE Head(todo[r]) \in Effects
    <3>1. Head(todo[r]) = "insert" /\ kind[r] = "APIService" /\ cfg[r] # "none"
          BY <2>2, <2>3
    <3>2. job[r] = "none" /\ cfg[r] = "new"
          BY <3>1 DEF Local, Operations
    <3>3. ~(goal = "none" /\ m[r] = "delete")
          BY <2>2, <3>1 DEF Overclaims
    <3> QED
        BY <3>2, <3>3
  <2>4. CASE Head(todo[r]) \notin Effects
    <3>1. ~Acts(todo[r])
          BY <1>3, <2>1, <2>4
    <3>2. /\ Head(todo[r]) = "await" => job[r] = "none"
          /\ Head(todo[r]) \in {"settle", "ready", "gone"} => job[r] \in {"none", "failed"}
          BY <2>2, <2>4 DEF Fine, Over, Effects
    <3>3. Works(r) => job[r] = "none" /\ cfg[r] = "new"
          BY <2>1, <2>2, <3>1, <3>2 DEF Local, Effective, NextIn
    <3>4. goal = "none" /\ m[r] = "delete" => job[r] \in {"none", "failed"} /\ cfg[r] = "none"
          BY <2>1, <2>2, <3>1, <3>2 DEF Local, Effective, NextIn
    <3> QED
        BY <3>3, <3>4
  <2> QED
      BY <2>3, <2>4
<1>8. Public(r)'
  <2>1. SUFFICES ASSUME goal = "new", kind[r] \in WithPolicy, ~edited[r]
                 PROVE  recPub[r] = pub[r] /\ ~(Works(r) /\ Tail(todo[r]) = << >>)
        BY <1>2 DEF Public, Works, Local
  <2>2. recPub[r] = pub[r]
        BY <2>1 DEF Local, Public
  <2>3. Works(r) => Tail(todo[r]) # << >>
        BY <1>3, <2>1 DEF Works, Fits, Following
  <2> QED
      BY <2>2, <2>3
<1>9. Prints(r)'
      BY <1>2 DEF Prints, Local, Methods
<1> QED
    BY <1>4, <1>5, <1>6, <1>7, <1>8, <1>9 DEF Local

\* The last step of Create and Update, where there is a policy to set.
LEMMA SettingPolicy ==
    ASSUME NEW r \in Used, UNCHANGED given, GivenTyped, CountsTyped, faults' = faults,
           CloudTyped, KnownTyped,
           Local(r), m[r] \in Methods, todo[r] # << >>, m'[r] = m[r],
           todo'[r] = Tail(todo[r]), KnownKept(r), mutex = r => mutex' = r, fp'[r] = fp[r],
           cfg'[r] = cfg[r], job'[r] = job[r], Head(todo[r]) \in PolicySteps,
           cfg[r] # "none" \/ Skipped(r),
           pub'[r] = IF Skipped(r) THEN pub[r] ELSE wantPub[r]
    PROVE  Local(r)'
<1>1. faults \in Nat
      BY DriversAssumption DEF CountsTyped, DriversAssumption
<1>2. /\ kind' = kind /\ goal' = goal /\ reads' = reads /\ wantPub' = wantPub
      /\ record'[r] = record[r] /\ recPub'[r] = recPub[r] /\ saved'[r] = saved[r]
      /\ edited'[r] = edited[r]
      BY DEF given, KnownKept
<1>3. /\ Fits(kind[r], m[r], Head(todo[r]), Following(todo[r]))
      /\ Rest(kind[r], m[r], Tail(todo[r]))
      /\ Head(todo[r]) \notin Effects /\ Acts(todo[r]) => Acts(Tail(todo[r]))
      BY Underway
<1>4. /\ m[r] \in {"create", "update"} /\ kind[r] \in WithPolicy
      /\ Following(todo[r]) = "end" /\ Head(todo[r]) \notin Effects
      /\ kind[r] \notin OnInstance
      BY <1>3 DEF Fits, Methods, PolicySteps, Effects, WithPolicy, OnInstance
<1>5. Course(r)'
      BY <1>2, <1>3 DEF Course, Local
<1>6. Apart(r)'
      BY <1>2, <1>4 DEF Apart, OnInstance
<1>7. Operations(r)'
      BY <1>2 DEF Operations, Local
<1>8. Effective(r)'
  <2>1. SUFFICES ASSUME ~edited[r], ~Overclaims(r), ~Acts(Tail(todo[r]))
                 PROVE  job[r] = "none" /\ cfg[r] = "new"
        BY <1>2, <1>4 DEF Effective, Works, Overclaims, Unheeded
  <2>2. ~Acts(todo[r])
        BY <1>3, <1>4, <2>1
  <2> QED
      BY <1>4, <2>1, <2>2 DEF Local, Effective, Works, NextIn, PolicySteps
<1>9. Public(r)'
  <2>1. SUFFICES ASSUME goal = "new", ~edited[r]
                 PROVE  IF Tail(todo[r]) = << >> THEN pub'[r] = wantPub[r] ELSE recPub[r] = pub'[r]
        BY <1>2, <1>4 DEF Public, Works, Local
  <2>2. Tail(todo[r]) = << >>
    <3>1. SUFFICES ASSUME Tail(todo[r]) # << >> PROVE FALSE
          OBVIOUS
    <3>2. \E y : Fits(kind[r], m[r], Following(todo[r]), y)
          BY <3>1, Underway
    <3> QED
        BY <1>4, <3>2 DEF Fits, Steps
  <2>3. recPub[r] = pub[r]
        BY <1>4, <2>1 DEF Local, Public
  <2>4. CASE At(r, "policyIfPublic") /\ ~wantPub[r]
    <3>1. m[r] = "create"
          BY <1>3, <2>4 DEF Fits, At
    <3>2. ~recPub[r]
          BY <3>1 DEF Local, Course, Public
    <3>3. recPub[r] = pub'[r]
          BY <2>3, <2>4 DEF Skipped
    <3> QED
        BY <2>2, <2>4, <3>2, <3>3 DEF GivenTyped, KnownTyped
  <2>5. CASE At(r, "policyIfChanged") /\ recPub[r] = wantPub[r]
        BY <2>2, <2>3, <2>5 DEF Skipped
  <2>6. CASE ~Skipped(r)
        BY <2>2, <2>6
  <2> QED
      BY <2>4, <2>5, <2>6 DEF Skipped
<1>10. Prints(r)'
      BY <1>2 DEF Prints, Local
<1> QED
    BY <1>5, <1>6, <1>7, <1>8, <1>9, <1>10 DEF Local

\* A call that starts an operation.
LEMMA Starting ==
    ASSUME NEW r \in Used, UNCHANGED given, GivenTyped, CountsTyped, faults' = faults,
           Local(r), m[r] \in Methods, todo[r] # << >>, m'[r] = m[r],
           todo'[r] = Tail(todo[r]), KnownKept(r), mutex' = mutex,
           fp[r] # "none" => fp'[r] \in {fp[r], "stale"},
           pub'[r] = pub[r], Head(todo[r]) \in Starts,
           job'[r] = CASE Head(todo[r]) = "insert" -> "insert"
                       [] Head(todo[r]) = "remove" -> "remove"
                       [] OTHER -> "rewrite",
           Head(todo[r]) = "insert" <=> cfg[r] = "none",
           \/ cfg'[r] = cfg[r]
           \/ kind[r] = "CloudFunction" /\ cfg[r] = "none" /\ cfg'[r] = "partial"
    PROVE  Local(r)'
<1>1. faults \in Nat
      BY DriversAssumption DEF CountsTyped, DriversAssumption
<1>2. /\ kind' = kind /\ goal' = goal /\ reads' = reads /\ wantPub' = wantPub
      /\ record'[r] = record[r] /\ recPub'[r] = recPub[r] /\ saved'[r] = saved[r]
      /\ edited'[r] = edited[r]
      BY DEF given, KnownKept
<1>3. /\ Fits(kind[r], m[r], Head(todo[r]), Following(todo[r]))
      /\ Tail(todo[r]) # << >> =>
            /\ Following(todo[r]) = Head(Tail(todo[r]))
            /\ \E y : Fits(kind[r], m[r], Following(todo[r]), y)
      /\ Rest(kind[r], m[r], Tail(todo[r]))
      BY Underway
<1>4. /\ Following(todo[r]) \in {"await", "settle", "gone"}
      /\ kind[r] \in OnInstance => Following(todo[r]) = "await"
      /\ kind[r] \notin Direct
      /\ Head(todo[r]) = "remove" => m[r] = "delete"
      /\ Head(todo[r]) # "remove" => m[r] # "delete"
      /\ Head(todo[r]) = "insert" => kind[r] # "CloudRun"
      /\ kind[r] = "APIService" => Head(todo[r]) = "insert"
      BY <1>3 DEF Fits, Starts, Effects
<1>5. Tail(todo[r]) # << >> /\ Head(Tail(todo[r])) \in {"await", "settle", "gone"}
  <2>1. Tail(todo[r]) # << >>
        BY <1>4 DEF Following
  <2> QED
      BY <2>1, <1>3, <1>4
<1>6. /\ Head(Tail(todo[r])) = "gone" => m[r] = "delete"
      /\ Head(Tail(todo[r])) = "settle" => m[r] # "delete"
  <2>1. PICK y : Fits(kind[r], m[r], Head(Tail(todo[r])), y)
        BY <1>3, <1>5
  <2> QED
      BY <2>1 DEF Fits, Effects
<1>7. Course(r)'
      BY <1>2, <1>3 DEF Course, Local
<1>8. Apart(r)'
  <2>1. kind[r] \in OnInstance => Head(Tail(todo[r])) = "await"
        BY <1>3, <1>4, <1>5
  <2>2. kind[r] \in {"CloudSQLUser", "CloudSQLDatabase"} => mutex = r
        BY DEF Local, Apart, Starts
  <2> QED
      BY <1>2, <1>5, <2>1, <2>2 DEF Apart, NextIn
<1>9. Operations(r)'
  <2>1. job'[r] = "remove" => m[r] = "delete"
        BY <1>4
  <2>2. job'[r] \in {"insert", "rewrite", "remove"}
        BY DEF Starts
  <2>3. job'[r] \in {"rewrite", "remove"} => cfg'[r] # "none"
        BY DEF Starts
  <2>4. kind[r] = "APIService" => cfg'[r] = "none"
        BY <1>4
  <2>5. m[r] = "delete" /\ goal = "new" => kind[r] \in Replaced
        BY DEF Local, Course
  <2> QED
      BY <1>2, <1>4, <2>1, <2>2, <2>3, <2>4, <2>5 DEF Operations
<1>10. Effective(r)'
  <2>1. Works(r) => /\ job'[r] \in {"insert", "rewrite"}
                    /\ Head(Tail(todo[r])) \in {"await", "settle", "ready"}
        BY <1>4, <1>5, <1>6 DEF Works, Starts
  <2>2. m[r] = "delete" => job'[r] = "remove" /\ Head(Tail(todo[r])) \in {"await", "gone"}
        BY <1>4, <1>5, <1>6
  <2> QED
      BY <1>2, <1>5, <2>1, <2>2 DEF Effective, Works, NextIn
<1>11. Public(r)'
      BY <1>2, <1>5 DEF Public, Works, Local
<1>12. Prints(r)'
      BY <1>2 DEF Prints, Local, Methods
<1> QED
    BY <1>7, <1>8, <1>9, <1>10, <1>11, <1>12 DEF Local

\* A call that is done when answered.
LEMMA Doing ==
    ASSUME NEW r \in Used, UNCHANGED given, GivenTyped, CountsTyped, faults' = faults,
           Local(r), m[r] \in Methods, todo[r] # << >>, m'[r] = m[r],
           todo'[r] = Tail(todo[r]), KnownKept(r), mutex' = mutex,
           fp[r] # "none" => fp'[r] \in {fp[r], "stale"},
           \/ /\ Head(todo[r]) \in {"make", "amend", "put"} /\ pub'[r] = pub[r]
              /\ \/ cfg'[r] = "new"
                 \/ kind[r] \in {"RuledBucket", "CloudRun"} /\ cfg'[r] = "partial"
              /\ job'[r] = IF Head(todo[r]) = "put" THEN "none"
                           ELSE IF kind[r] = "CloudRun" THEN "rewrite" ELSE job[r]
           \/ /\ Head(todo[r]) = "drop" /\ cfg'[r] = "none" /\ pub'[r] = FALSE
              /\ job'[r] = job[r]
    PROVE  Local(r)'
<1>1. faults \in Nat
      BY DriversAssumption DEF CountsTyped, DriversAssumption
<1>2. /\ kind' = kind /\ goal' = goal /\ reads' = reads /\ wantPub' = wantPub
      /\ record'[r] = record[r] /\ recPub'[r] = recPub[r] /\ saved'[r] = saved[r]
      /\ edited'[r] = edited[r]
      BY DEF given, KnownKept
<1>3. /\ Fits(kind[r], m[r], Head(todo[r]), Following(todo[r]))
      /\ Tail(todo[r]) # << >> => Following(todo[r]) = Head(Tail(todo[r]))
      /\ Rest(kind[r], m[r], Tail(todo[r]))
      BY Underway
<1>4. /\ kind[r] \in Direct \/ (kind[r] = "CloudRun" /\ Following(todo[r]) = "ready")
      /\ Head(todo[r]) \in {"put", "drop"} => kind[r] \in Direct
      /\ Head(todo[r]) = "drop" <=> m[r] = "delete"
      BY <1>3 DEF Fits, Effects
<1>5. kind[r] \notin OnInstance /\ kind[r] # "APIService"
      /\ (kind[r] \in Direct => kind[r] # "CloudRun")
      BY <1>4 DEF Direct, OnInstance
<1>6. m[r] = "delete" /\ goal = "new" => kind[r] \notin WithPolicy
      BY KindSets DEF Local, Course
<1>7. kind[r] \in WithPolicy /\ m[r] # "delete" => Tail(todo[r]) # << >>
      BY <1>3 DEF Fits, Following, PolicySteps
<1>8. kind[r] \in Direct =>
            job'[r] = "none" \/ (kind[r] = "Image" /\ job'[r] = "failed" /\ faults > 0)
      BY <1>5 DEF Local, Operations
<1>9. kind[r] = "CloudRun" => job'[r] = "rewrite" /\ Tail(todo[r]) # << >>
                              /\ Head(Tail(todo[r])) = "ready" /\ cfg'[r] # "none"
  <2>1. SUFFICES ASSUME kind[r] = "CloudRun"
                 PROVE  job'[r] = "rewrite" /\ Tail(todo[r]) # << >>
                        /\ Head(Tail(todo[r])) = "ready" /\ cfg'[r] # "none"
        OBVIOUS
  <2>2. Following(todo[r]) = "ready" /\ Head(todo[r]) \notin {"put", "drop"}
        BY <1>4, <1>5, <2>1
  <2>3. Tail(todo[r]) # << >>
        BY <2>2 DEF Following
  <2> QED
      BY <1>3, <2>1, <2>2, <2>3
<1>10. Course(r)'
      BY <1>2, <1>3 DEF Course, Local
<1>11. Apart(r)'
      BY <1>2, <1>5 DEF Apart, OnInstance
<1>12. Operations(r)'
      BY <1>2, <1>4, <1>5, <1>8, <1>9 DEF Operations
<1>13. Effective(r)'
  <2>1. CASE kind[r] \in Direct
    <3>1. kind[r] # "RuledBucket" => cfg'[r] = IF m[r] = "delete" THEN "none" ELSE "new"
          BY <1>4, <1>5, <2>1
    <3>2. Works(r) => goal = "new"
          BY DEF Local, Course, Works, Methods, GivenTyped
    <3>3. Works(r) /\ ~Overclaims(r)' => job'[r] = "none" /\ cfg'[r] = "new"
          BY <1>2, <1>8, <2>1, <3>1, <3>2 DEF Works, Overclaims, Unheeded
    <3>4. m[r] = "delete" /\ ~Overclaims(r)' => job'[r] \in {"none", "failed"} /\ cfg'[r] = "none"
          BY <1>2, <1>8, <2>1, <3>1 DEF Overclaims
    <3> QED
        BY <1>2, <3>3, <3>4 DEF Effective, Works
  <2>2. CASE kind[r] = "CloudRun"
    <3>1. m[r] # "delete"
          BY <1>4, <1>5, <2>2
    <3> QED
        BY <1>2, <1>9, <2>2, <3>1 DEF Effective, Works, NextIn
  <2> QED
      BY <1>4, <2>1, <2>2
<1>14. Public(r)'
  <2>1. CASE Head(todo[r]) # "drop"
    <3>1. cfg'[r] # "none" /\ pub'[r] = pub[r] /\ m[r] # "delete"
          BY <1>4, <2>1
    <3> QED
        BY <1>2, <1>7, <3>1 DEF Public, Works, Local
  <2>2. CASE Head(todo[r]) = "drop"
    <3>1. m[r] = "delete" /\ pub'[r] = FALSE
          BY <1>4, <2>2
    <3> QED
        BY <1>2, <1>6, <3>1 DEF Public, Works, Local
  <2> QED
      BY <2>1, <2>2
<1>15. Prints(r)'
      BY <1>2 DEF Prints, Local, Methods
<1> QED
    BY <1>10, <1>11, <1>12, <1>13, <1>14, <1>15 DEF Local

\* A call whose answer is lost has its effect, and its method is over.
LEMMA Losing ==
    ASSUME NEW r \in Used, UNCHANGED given, GivenTyped, CountsTyped, faults' = faults + 1,
           Local(r), m[r] \in Methods, todo[r] # << >>, m'[r] = "end", KnownKept(r),
           \/ /\ Head(todo[r]) = "insert" /\ cfg[r] = "none" /\ job'[r] = "insert"
              /\ cfg'[r] = cfg[r] /\ pub'[r] = pub[r]
           \/ /\ Head(todo[r]) \in {"make", "put"} /\ cfg'[r] # "none" /\ pub'[r] = pub[r]
              /\ job'[r] = IF kind[r] = "CloudRun" THEN "rewrite" ELSE "none"
           \/ /\ Head(todo[r]) = "remove" /\ cfg[r] # "none" /\ job'[r] = "remove"
              /\ cfg'[r] = cfg[r] /\ pub'[r] = pub[r]
           \/ /\ Head(todo[r]) = "drop" /\ cfg'[r] = "none" /\ pub'[r] = FALSE
              /\ job'[r] = job[r]
    PROVE  Local(r)'
<1>1. faults \in Nat /\ faults' > 0
      BY DriversAssumption DEF CountsTyped, DriversAssumption
<1>2. /\ kind' = kind /\ goal' = goal /\ reads' = reads /\ wantPub' = wantPub
      /\ record'[r] = record[r] /\ recPub'[r] = recPub[r] /\ saved'[r] = saved[r]
      /\ edited'[r] = edited[r]
      BY DEF given, KnownKept
<1>3. Fits(kind[r], m[r], Head(todo[r]), Following(todo[r]))
      BY Underway
<1>4. /\ Head(todo[r]) \in {"insert", "remove"} => kind[r] \notin Direct
      /\ Head(todo[r]) \in {"remove", "drop"} => m[r] = "delete"
      /\ Head(todo[r]) = "insert" => kind[r] # "CloudRun"
      /\ Head(todo[r]) = "drop" => kind[r] \in Direct
      /\ kind[r] = "APIService" => Head(todo[r]) = "insert"
      /\ kind[r] \in Direct => kind[r] # "CloudRun"
      BY <1>3 DEF Fits, Starts, Direct
<1>5. m[r] = "delete" /\ goal = "new" => kind[r] \in Replaced /\ kind[r] \notin WithPolicy
      BY KindSets DEF Local, Course
<1>6. Course(r)' /\ Effective(r)' /\ Prints(r)'
      BY DEF Course, Effective, Prints, Works, Methods
<1>7. Apart(r)'
      BY <1>1 DEF Apart, Methods
<1>8. Operations(r)'
      BY <1>1, <1>2, <1>4, <1>5 DEF Operations, Local
<1>9. Public(r)'
      BY <1>2, <1>4, <1>5 DEF Public, Works, Local
<1> QED
    BY <1>6, <1>7, <1>8, <1>9 DEF Local

\* The end of an operation, good or bad, and an edit.
LEMMA Ending ==
    ASSUME NEW r \in Used, UNCHANGED given, GivenTyped, CountsTyped, faults' = faults,
           Local(r), WorkKept(r), KnownKept(r), job[r] \in Running, job'[r] = "none",
           fp'[r] = fp[r] \/ (fp[r] = "fresh" /\ fp'[r] = "stale"),
           \/ job[r] = "insert" /\ cfg'[r] = Wanted(r) /\ pub'[r] = pub[r]
           \/ /\ job[r] = "rewrite" /\ pub'[r] = pub[r]
              /\ cfg'[r] = IF cfg[r] = "none" THEN "none" ELSE Wanted(r)
           \/ job[r] = "remove" /\ cfg'[r] = "none" /\ pub'[r] = FALSE
    PROVE  Local(r)'
<1>1. faults \in Nat
      BY DriversAssumption DEF CountsTyped, DriversAssumption
<1>2. /\ kind' = kind /\ goal' = goal /\ reads' = reads /\ wantPub' = wantPub
      /\ record'[r] = record[r] /\ recPub'[r] = recPub[r] /\ saved'[r] = saved[r]
      /\ edited'[r] = edited[r] /\ m'[r] = m[r] /\ todo'[r] = todo[r]
      /\ mutex = r => mutex' = r
      BY DEF given, KnownKept, WorkKept
<1>3. /\ kind[r] \notin Direct /\ Wanted(r) = "new"
      /\ job[r] # "insert" => cfg[r] # "none"
      /\ kind[r] = "APIService" => job[r] = "insert"
      BY DEF Local, Operations, Running, Wanted, Direct
<1>4. job[r] = "remove" /\ goal = "new" => kind[r] \notin WithPolicy
      BY KindSets DEF Local, Operations
<1>5. Course(r)'
      BY <1>2 DEF Course, Local
<1>6. Apart(r)'
      BY <1>2 DEF Apart, Local, Running
<1>7. Operations(r)'
      BY <1>2, <1>3 DEF Operations
<1>8. Effective(r)'
  <2>0. ~Overclaims(r)' => ~Overclaims(r)
        BY <1>2 DEF Overclaims, Unheeded, Running
  <2>1. SUFFICES ASSUME ~edited[r], ~Overclaims(r), ~Acts(todo[r])
                 PROVE  /\ Works(r) => cfg'[r] = "new"
                        /\ goal = "none" /\ m[r] = "delete" => cfg'[r] = "none"
        BY <1>2, <2>0 DEF Effective, Works
  <2>2. /\ Works(r) => job[r] \in {"insert", "rewrite"}
        /\ goal = "none" /\ m[r] = "delete" => job[r] = "remove"
        BY <2>1 DEF Local, Effective, Running
  <2> QED
      BY <1>3, <2>2
<1>9. Public(r)'
      BY <1>2, <1>3, <1>4 DEF Public, Works, Local
<1>10. Prints(r)'
      BY <1>2 DEF Prints, Local
<1> QED
    BY <1>5, <1>6, <1>7, <1>8, <1>9, <1>10 DEF Local

\* An operation that fails.
LEMMA Breaking ==
    ASSUME NEW r \in Used, UNCHANGED given, GivenTyped, CountsTyped, faults' = faults + 1,
           Local(r), WorkKept(r), KnownKept(r), job[r] \in Running, job'[r] = "failed",
           ~(kind[r] = "CloudRun" /\ job[r] = "remove"),
           cfg'[r] = cfg[r], pub'[r] = pub[r], fp'[r] = fp[r]
    PROVE  Local(r)'
<1>1. faults \in Nat /\ faults' > 0
      BY DriversAssumption DEF CountsTyped, DriversAssumption
<1>2. /\ kind' = kind /\ goal' = goal /\ reads' = reads /\ wantPub' = wantPub
      /\ record'[r] = record[r] /\ recPub'[r] = recPub[r] /\ saved'[r] = saved[r]
      /\ edited'[r] = edited[r] /\ m'[r] = m[r] /\ todo'[r] = todo[r]
      /\ mutex = r => mutex' = r
      BY DEF given, KnownKept, WorkKept
<1>3. Course(r)'
      BY <1>2 DEF Course, Local
<1>4. Apart(r)'
      BY <1>1, <1>2 DEF Apart, Local
<1>5. Operations(r)'
      BY <1>1, <1>2 DEF Operations, Local, Running
<1>6. Effective(r)'
  <2>1. SUFFICES ASSUME ~edited[r], ~Overclaims(r)', ~Acts(todo[r]),
                        Works(r) \/ (goal = "none" /\ m[r] = "delete")
                 PROVE  NextIn(r, {"await"})
        BY <1>2 DEF Effective, Works, NextIn
  <2>2. ~Overclaims(r) /\ kind[r] # "CloudFunction"
        BY <1>1, <1>2, <2>1 DEF Overclaims, Unheeded, EarlyDone, Running
  <2>3. NextIn(r, {"await", "settle", "ready", "gone"}) /\ m[r] \in Methods
        BY <2>1, <2>2 DEF Local, Effective, NextIn, Running, Works, Methods
  <2>4. Fits(kind[r], m[r], Head(todo[r]), Following(todo[r]))
        BY <2>3, Underway DEF NextIn
  <2>5. kind[r] # "CloudRun"
    <3>1. SUFFICES ASSUME kind[r] = "CloudRun" PROVE FALSE
          OBVIOUS
    <3>2. goal = "none" /\ m[r] = "delete"
      <4>1. goal # "new"
            BY <1>2, <2>1, <3>1 DEF Overclaims, Unheeded
      <4> QED
          BY <2>1, <4>1 DEF Local, Course, GivenTyped, Works, Methods
    <3>3. job[r] = "remove"
          BY <2>1, <2>2, <3>2 DEF Local, Effective, Running
    <3> QED
        BY <3>1, <3>3
  <2> QED
      BY <2>2, <2>3, <2>4, <2>5 DEF NextIn, Fits
<1>7. Public(r)'
      BY <1>2 DEF Public, Works, Local
<1>8. Prints(r)'
      BY <1>2 DEF Prints, Local
<1> QED
    BY <1>3, <1>4, <1>5, <1>6, <1>7, <1>8 DEF Local

\* A change by somebody else.
LEMMA Editing ==
    ASSUME NEW r \in Used, UNCHANGED given, GivenTyped, CountsTyped, faults' = faults,
           Local(r), WorkKept(r), record'[r] = record[r], recPub'[r] = recPub[r],
           saved'[r] = saved[r], edited'[r] = TRUE, Over(r), job'[r] = job[r],
           fp[r] = "none" <=> fp'[r] = "none",
           \/ kind[r] # "APIService" /\ cfg'[r] = "other" /\ pub'[r] = pub[r] /\ fp'[r] # "fresh"
           \/ cfg'[r] = "none" /\ pub'[r] = FALSE /\ fp'[r] # "fresh"
           \/ kind[r] \in WithPolicy /\ cfg[r] # "none" /\ cfg'[r] = cfg[r]
    PROVE  Local(r)'
<1>1. faults \in Nat
      BY DriversAssumption DEF CountsTyped, DriversAssumption
<1>2. /\ kind' = kind /\ goal' = goal /\ reads' = reads /\ wantPub' = wantPub
      /\ m'[r] = m[r] /\ todo'[r] = todo[r] /\ (mutex = r => mutex' = r)
      BY DEF given, WorkKept
<1>3. Course(r)'
      BY <1>2 DEF Course, Local
<1>4. Apart(r)'
      BY <1>2 DEF Apart, Local, Running, Over
<1>5. Operations(r)'
      BY <1>2, KindSets DEF Operations, Local, Over, WithPolicy
<1>6. Effective(r)'
      BY DEF Effective
<1>7. Public(r)'
      BY <1>2 DEF Public, Local
<1>8. Prints(r)'
      BY <1>2, KindSets DEF Prints, Local
<1> QED
    BY <1>3, <1>4, <1>5, <1>6, <1>7, <1>8 DEF Local

\* An operation done at once, whose error is not looked at.
LEMMA Unseeing ==
    ASSUME NEW r \in Used, UNCHANGED given, GivenTyped, CountsTyped, faults' = faults + 1,
           Local(r), m[r] \in Methods, todo[r] # << >>, m'[r] = m[r],
           todo'[r] = Tail(todo[r]), KnownKept(r), mutex' = mutex,
           kind[r] \in EarlyDone, Head(todo[r]) \in {"insert", "rewrite"},
           fp[r] # "none" => fp'[r] \in {fp[r], "stale"},
           pub'[r] = pub[r], job'[r] = job[r],
           \/ cfg'[r] = cfg[r]
           \/ kind[r] = "CloudFunction" /\ cfg'[r] = "partial"
    PROVE  Local(r)'
<1>1. faults \in Nat /\ faults' > 0
      BY DriversAssumption DEF CountsTyped, DriversAssumption
<1>2. /\ kind' = kind /\ goal' = goal /\ reads' = reads /\ wantPub' = wantPub
      /\ record'[r] = record[r] /\ recPub'[r] = recPub[r] /\ saved'[r] = saved[r]
      /\ edited'[r] = edited[r]
      BY DEF given, KnownKept
<1>3. /\ Fits(kind[r], m[r], Head(todo[r]), Following(todo[r]))
      /\ Rest(kind[r], m[r], Tail(todo[r]))
      BY Underway
<1>4. Tail(todo[r]) # << >> /\ kind[r] \notin OnInstance
      BY <1>3 DEF Fits, Following, Starts, EarlyDone, OnInstance
<1>5. Course(r)'
      BY <1>2, <1>3 DEF Course, Local
<1>6. Apart(r)'
      BY <1>2, <1>4 DEF Apart, OnInstance
<1>7. Operations(r)'
      BY <1>1, <1>2 DEF Operations, Local
<1>8. Effective(r)'
      BY <1>1, <1>2 DEF Effective, Overclaims
<1>9. Public(r)'
      BY <1>2, <1>4 DEF Public, Works, Local
<1>10. Prints(r)'
      BY <1>2 DEF Prints, Local, Methods
<1> QED
    BY <1>5, <1>6, <1>7, <1>8, <1>9, <1>10 DEF Local

\* A push whose error nobody looks at.
LEMMA Pushing ==
    ASSUME NEW r \in Used, UNCHANGED given, GivenTyped, CountsTyped, faults' = faults + 1,
           Local(r), m[r] \in Methods, todo[r] # << >>, m'[r] = m[r],
           todo'[r] = Tail(todo[r]), KnownKept(r), mutex' = mutex,
           kind[r] = "Image", Head(todo[r]) = "put",
           fp[r] # "none" => fp'[r] \in {fp[r], "stale"},
           pub'[r] = pub[r], pub[r] \in BOOLEAN, job'[r] = "failed"
    PROVE  Local(r)'
<1>1. faults \in Nat /\ faults' > 0
      BY DriversAssumption DEF CountsTyped, DriversAssumption
<1>2. /\ kind' = kind /\ goal' = goal /\ reads' = reads /\ wantPub' = wantPub
      /\ record'[r] = record[r] /\ recPub'[r] = recPub[r] /\ saved'[r] = saved[r]
      /\ edited'[r] = edited[r]
      BY DEF given, KnownKept
<1>3. /\ Fits(kind[r], m[r], Head(todo[r]), Following(todo[r]))
      /\ Rest(kind[r], m[r], Tail(todo[r]))
      BY Underway
<1>4. kind[r] \notin OnInstance /\ kind[r] \notin WithPolicy /\ m[r] # "delete"
      BY <1>3 DEF Fits, Effects, OnInstance, WithPolicy
<1>5. Course(r)'
      BY <1>2, <1>3 DEF Course, Local
<1>6. Apart(r)'
      BY <1>2, <1>4 DEF Apart, OnInstance
<1>7. Operations(r)'
      BY <1>1, <1>2 DEF Operations
<1>8. Effective(r)'
  <2>1. goal = "new"
        BY <1>4 DEF Local, Course, GivenTyped
  <2> QED
      BY <1>2, <2>1 DEF Effective, Overclaims, Unheeded
<1>9. Public(r)'
      BY <1>2, <1>4 DEF Public, Local
<1>10. Prints(r)'
      BY <1>2 DEF Prints, Local, Methods
<1> QED
    BY <1>5, <1>6, <1>7, <1>8, <1>9, <1>10 DEF Local

----------------------------------------------------------------------------
(* The steps of a method *)

Sane ==
    /\ GivenTyped /\ CloudTyped /\ KnownTyped /\ WorkTyped /\ CountsTyped
    /\ \A q \in Used : Local(q)

\* What a step of r does: only r changes, and stays in the invariant.
Moves(r) ==
    /\ UNCHANGED given
    /\ CloudTyped' /\ KnownTyped' /\ WorkTyped' /\ CountsTyped' /\ faults' >= faults
    /\ refused' => refused \/ faults' > 0
    /\ \A q \in Others(r) : Kept(q)
    /\ Local(r)'

\* What the steps of a method leave alone.
LEMMA KnownStays ==
    ASSUME KnownTyped, UNCHANGED rest
    PROVE  /\ UNCHANGED given /\ KnownTyped' /\ edits' = edits
           /\ \A q \in Used : KnownKept(q)
BY DEF rest, given, known, KnownTyped, KnownKept, Used

\* A step that leaves the cloud alone.
LEMMA CloudStays ==
    ASSUME CloudTyped, UNCHANGED given, UNCHANGED cloud, fp' = fp
    PROVE  CloudTyped' /\ \A q \in Used : CloudKept(q) /\ fp'[q] = fp[q]
BY DEF cloud, given, CloudTyped, CloudKept, Used

\* The counters stay within their bounds.
LEMMA CountsMove ==
    ASSUME CountsTyped, refused' \in BOOLEAN,
           edits' = edits \/ (edits < MaxEdits /\ edits' = edits + 1),
           faults' = faults \/ (faults < MaxFaults /\ faults' = faults + 1)
    PROVE  CountsTyped' /\ faults' >= faults /\ faults \in Nat
BY DriversAssumption DEF CountsTyped, DriversAssumption

\* One operation changes.
LEMMA JobSet ==
    ASSUME NEW r \in Used, CloudTyped,
           NEW j \in {"none", "failed", "insert", "rewrite", "remove"},
           job' = [job EXCEPT ![r] = j]
    PROVE  /\ job' \in [Used -> {"none", "failed", "insert", "rewrite", "remove"}]
           /\ job'[r] = j /\ \A q \in Others(r) : job'[q] = job[q]
BY DEF CloudTyped, Others

\* A call refused for a reason ends its method.
LEMMA RefuseMoves ==
    ASSUME NEW r \in Used, NEW s, s # "await", Sane, Refuse(r, s)
    PROVE  Moves(r)
<1>1. /\ m[r] \in Methods /\ todo[r] # << >> /\ Head(todo[r]) = s /\ Fail(r)
      /\ UNCHANGED rest /\ UNCHANGED cloud /\ fp' = fp /\ refused' = refused /\ faults' = faults
      BY DEF Refuse, At
<1>2. UNCHANGED given /\ KnownTyped' /\ edits' = edits /\ \A q \in Used : KnownKept(q)
      BY <1>1, KnownStays DEF Sane
<1>3. CloudTyped' /\ \A q \in Used : CloudKept(q) /\ fp'[q] = fp[q]
      BY <1>1, <1>2, CloudStays DEF Sane
<1>4. CountsTyped' /\ faults' >= faults
      BY <1>1, <1>2, CountsMove DEF Sane, CountsTyped
<1>5. /\ WorkTyped' /\ m'[r] = "end" /\ todo'[r] = << >>
      /\ \A q \in Others(r) : WorkKept(q)
      BY <1>1, <1>2, Fails DEF Sane
<1>6. Local(r)'
      BY <1>1, <1>2, <1>3, <1>4, <1>5, Failing DEF Sane
<1> QED
    BY <1>1, <1>2, <1>3, <1>4, <1>5, <1>6 DEF Moves, Others, Kept

\* A step that leaves the cloud as it is.
LEMMA AdvanceMoves ==
    ASSUME NEW r \in Used, Sane, m[r] \in Methods, todo[r] # << >>, Advance(r),
           UNCHANGED rest, UNCHANGED cloud, refused' = refused,
           faults' = faults \/ (faults < MaxFaults /\ faults' = faults + 1),
           \/ fp' = fp
           \/ fp' = [fp EXCEPT ![r] = IF @ = "none" THEN "fresh" ELSE @],
           Head(todo[r]) \notin PolicySteps \cup {"lock"},
           \/ kind[r] \in EarlyDone /\ faults' > 0 /\ Head(todo[r]) # "await"
           \/ /\ Head(todo[r]) \notin Effects
              /\ Head(todo[r]) = "await" => Fine(r)
              /\ Head(todo[r]) \in {"settle", "ready", "gone"} => Over(r)
           \/ Head(todo[r]) = "insert" /\ kind[r] = "APIService" /\ cfg[r] # "none"
    PROVE  Moves(r)
<1>1. UNCHANGED given /\ KnownTyped' /\ edits' = edits /\ \A q \in Used : KnownKept(q)
      BY KnownStays DEF Sane
<1>2. /\ CloudTyped' /\ \A q \in Used : CloudKept(q)
      /\ \A q \in Others(r) : fp'[q] = fp[q]
      /\ fp[r] # "none" => fp'[r] \in {fp[r], "stale"}
  <2>1. CASE fp' = fp
        BY <1>1, <2>1, CloudStays DEF Sane, Others
  <2>2. CASE fp' = [fp EXCEPT ![r] = IF @ = "none" THEN "fresh" ELSE @]
    <3>1. Used' = Used
          BY <1>1 DEF given, Used
    <3>2. /\ fp' \in [Used -> {"none", "fresh", "stale"}]
          /\ \A q \in Others(r) : fp'[q] = fp[q]
          /\ fp[r] # "none" => fp'[r] = fp[r]
          BY <2>2 DEF Sane, CloudTyped, Others
    <3> QED
        BY <3>1, <3>2 DEF Sane, CloudTyped, CloudKept, cloud
  <2> QED
      BY <2>1, <2>2
<1>3. CountsTyped' /\ faults' >= faults
      BY <1>1, CountsMove DEF Sane, CountsTyped
<1>4. /\ WorkTyped' /\ m'[r] = m[r] /\ todo'[r] = Tail(todo[r]) /\ mutex' = mutex
      /\ \A q \in Others(r) : WorkKept(q)
      BY <1>1, Advances DEF Sane
<1>5. Local(r)'
      BY <1>1, <1>2, <1>3, <1>4, Advancing DEF Sane
<1> QED
    BY <1>1, <1>2, <1>3, <1>4, <1>5 DEF Moves, Others, Kept

\* Lock takes the mutex for a method of an instance.
LEMMA LockMoves ==
    ASSUME NEW r \in Used, Sane, Lock(r)
    PROVE  Moves(r)
<1>1. /\ m[r] \in Methods /\ todo[r] # << >> /\ Head(todo[r]) = "lock"
      /\ mutex = None /\ mutex' = r /\ todo' = [todo EXCEPT ![r] = Tail(@)]
      /\ m' = m /\ result' = result
      /\ UNCHANGED rest /\ UNCHANGED cloud /\ fp' = fp /\ refused' = refused /\ faults' = faults
      BY DEF Lock, At
<1>2. UNCHANGED given /\ KnownTyped' /\ edits' = edits /\ \A q \in Used : KnownKept(q)
      BY <1>1, KnownStays DEF Sane
<1>3. CloudTyped' /\ \A q \in Used : CloudKept(q) /\ fp'[q] = fp[q]
      BY <1>1, <1>2, CloudStays DEF Sane
<1>4. CountsTyped' /\ faults' >= faults
      BY <1>1, <1>2, CountsMove DEF Sane, CountsTyped
<1>5. kind[r] \in OnInstance
  <2>1. Fits(kind[r], m[r], Head(todo[r]), Following(todo[r]))
        BY <1>1, Underway DEF Sane
  <2> QED
      BY <1>1, <2>1 DEF Fits
<1>6. Used' = Used /\ kind' = kind /\ None \notin Used
      BY <1>2, KindFacts DEF given, Used, Sane
<1>7. Tail(todo[r]) \in Seq(Steps)
      BY <1>1 DEF WorkTyped, Sane
<1>8. todo' \in [Used -> Seq(Steps)] /\ todo'[r] = Tail(todo[r])
      BY <1>1, <1>7 DEF WorkTyped, Sane
<1>9. WorkTyped'
      BY <1>1, <1>5, <1>6, <1>8 DEF WorkTyped, Sane
<1>10. \A q \in Others(r) : WorkKept(q)
      BY <1>1, <1>6 DEF WorkTyped, Others, WorkKept, Sane
<1>11. Local(r)'
      BY <1>1, <1>2, <1>3, <1>4, <1>8, Advancing DEF Sane, PolicySteps, Effects
<1> QED
    BY <1>1, <1>2, <1>3, <1>4, <1>9, <1>10, <1>11 DEF Moves, Others, Kept

\* If nothing has failed, no operation is refused for another of ours.
LEMMA RefuseBusyMoves ==
    ASSUME NEW r \in Used, Sane, RefuseBusy(r)
    PROVE  Moves(r)
<1>1. /\ m[r] \in Methods /\ todo[r] # << >> /\ Head(todo[r]) \in Starts /\ Fail(r)
      /\ Busy(r) /\ refused' = TRUE
      /\ UNCHANGED rest /\ UNCHANGED cloud /\ fp' = fp /\ faults' = faults
      BY DEF RefuseBusy, At
<1>2. UNCHANGED given /\ KnownTyped' /\ edits' = edits /\ \A q \in Used : KnownKept(q)
      BY <1>1, KnownStays DEF Sane
<1>3. CloudTyped' /\ \A q \in Used : CloudKept(q) /\ fp'[q] = fp[q]
      BY <1>1, <1>2, CloudStays DEF Sane
<1>4. CountsTyped' /\ faults' >= faults /\ faults \in Nat
      BY <1>1, <1>2, CountsMove DEF Sane, CountsTyped
<1>5. /\ WorkTyped' /\ m'[r] = "end" /\ todo'[r] = << >>
      /\ \A q \in Others(r) : WorkKept(q)
      BY <1>1, <1>2, Fails DEF Sane
<1>6. Local(r)'
      BY <1>1, <1>2, <1>3, <1>4, <1>5, Failing DEF Sane, Starts
<1>7. faults > 0
  <2>1. SUFFICES ASSUME faults = 0 PROVE FALSE
        BY <1>4
  <2>2. PICK q \in Used : kind[q] \in OnInstance /\ job[q] \in Running
        BY <1>1 DEF Busy, Running
  <2>3. m[q] \in Methods /\ todo[q] # << >> /\ Head(todo[q]) = "await"
        BY <2>1, <2>2 DEF Sane, Local, Apart, NextIn
  <2>4. q # r /\ kind[r] \in OnInstance
        BY <1>1, <2>3 DEF Starts, Busy
  <2>5. {kind[q], kind[r]} \subseteq {"CloudSQLUser", "CloudSQLDatabase"}
        BY <2>2, <2>4, KindFacts DEF Sane, OnInstance
  <2>6. mutex = q
        BY <2>3, <2>5 DEF Sane, Local, Apart
  <2>7. mutex = r
        BY <1>1, <2>5 DEF Sane, Local, Apart, Starts
  <2> QED
      BY <2>4, <2>6, <2>7
<1> QED
    BY <1>1, <1>2, <1>3, <1>4, <1>5, <1>6, <1>7 DEF Moves, Others, Kept

\* How a step that has an effect changes the cloud: cfg and fp by Set or not at
\* all, the operation and the policy of r or of nobody.
LEMMA CloudMoves ==
    ASSUME NEW r \in Used, Sane, UNCHANGED given,
           NEW c \in Configs, Set(r, c) \/ Touch(r, c) \/ (cfg' = cfg /\ fp' = fp /\ c = cfg[r]),
           NEW j \in {"none", "failed", "insert", "rewrite", "remove"},
           job' = [job EXCEPT ![r] = j] \/ (job' = job /\ j = job[r]),
           NEW p \in BOOLEAN, pub' = [pub EXCEPT ![r] = p] \/ (pub' = pub /\ p = pub[r])
    PROVE  /\ CloudTyped' /\ cfg'[r] = c /\ job'[r] = j /\ pub'[r] = p
           /\ fp'[r] = fp[r] \/ (fp[r] = "fresh" /\ fp'[r] = "stale")
           /\ Touch(r, c) => fp'[r] # "fresh"
           /\ \A q \in Others(r) : CloudKept(q) /\ fp'[q] = fp[q]
<1>1. Used' = Used
      BY DEF given, Used
<1>2. CloudTyped
      BY DEF Sane
<1>3. /\ cfg' \in [Used -> Configs] /\ cfg'[r] = c
      /\ fp' \in [Used -> {"none", "fresh", "stale"}]
      /\ fp'[r] = fp[r] \/ (fp[r] = "fresh" /\ fp'[r] = "stale")
      /\ \A q \in Others(r) : cfg'[q] = cfg[q] /\ fp'[q] = fp[q]
  <2>1. CASE Set(r, c) \/ Touch(r, c)
        BY <1>2, <2>1, Sets
  <2>2. CASE cfg' = cfg /\ fp' = fp /\ c = cfg[r]
        BY <1>2, <2>2 DEF CloudTyped
  <2> QED
      BY <2>1, <2>2
<1>4. Touch(r, c) => fp'[r] # "fresh"
      BY <1>2, Sets
<1>5. /\ job' \in [Used -> {"none", "failed", "insert", "rewrite", "remove"}] /\ job'[r] = j
      /\ \A q \in Others(r) : job'[q] = job[q]
      BY <1>2, JobSet DEF CloudTyped
<1>6. /\ pub' \in [Used -> BOOLEAN] /\ pub'[r] = p
      /\ \A q \in Others(r) : pub'[q] = pub[q]
      BY <1>2 DEF CloudTyped, Others
<1>7. CloudTyped'
      BY <1>1, <1>3, <1>5, <1>6 DEF CloudTyped
<1> QED
    BY <1>3, <1>4, <1>5, <1>6, <1>7 DEF CloudKept

\* A step that goes on or fails moves r, if what becomes of r is in the invariant.
LEMMA Gather ==
    ASSUME NEW r \in Used, Sane, UNCHANGED rest, refused' = refused,
           faults' = faults \/ (faults < MaxFaults /\ faults' = faults + 1),
           CloudTyped', \A q \in Others(r) : CloudKept(q) /\ fp'[q] = fp[q],
           (todo[r] # << >> /\ Advance(r)) \/ Fail(r)
    PROVE  /\ UNCHANGED given /\ KnownKept(r) /\ CountsTyped' /\ faults' >= faults
           /\ faults \in Nat
           /\ todo[r] # << >> /\ Advance(r) =>
                 m'[r] = m[r] /\ todo'[r] = Tail(todo[r]) /\ mutex' = mutex
           /\ Fail(r) => m'[r] = "end" /\ todo'[r] = << >>
           /\ Local(r)' => Moves(r)
<1>1. UNCHANGED given /\ KnownTyped' /\ edits' = edits /\ \A q \in Used : KnownKept(q)
      BY KnownStays DEF Sane
<1>2. CountsTyped' /\ faults' >= faults /\ faults \in Nat
      BY <1>1, CountsMove DEF Sane, CountsTyped
<1>3. ASSUME todo[r] # << >>, Advance(r)
      PROVE  /\ WorkTyped' /\ m'[r] = m[r] /\ todo'[r] = Tail(todo[r]) /\ mutex' = mutex
             /\ \A q \in Others(r) : WorkKept(q)
      BY <1>1, <1>3, Advances DEF Sane
<1>4. ASSUME Fail(r)
      PROVE  /\ WorkTyped' /\ m'[r] = "end" /\ todo'[r] = << >>
             /\ \A q \in Others(r) : WorkKept(q)
      BY <1>1, <1>4, Fails DEF Sane
<1>5. WorkTyped' /\ \A q \in Others(r) : WorkKept(q)
      BY <1>3, <1>4
<1>6. Local(r)' => Moves(r)
      BY <1>1, <1>2, <1>5 DEF Moves, Others, Kept
<1> QED
    BY <1>1, <1>2, <1>3, <1>4, <1>6

\* What a driver writes is there.
LEMMA WantedIs ==
    ASSUME NEW r
    PROVE  /\ Wanted(r) \in Configs /\ Wanted(r) # "none"
           /\ Wanted(r) = "new" \/ (kind[r] = "RuledBucket" /\ Wanted(r) = "partial")
BY DEF Wanted, Configs

\* The same of what a service has accepted.
LEMMA AcceptedIs ==
    ASSUME NEW r
    PROVE  /\ Accepted(r) \in Configs /\ Accepted(r) # "none"
           /\ \/ Accepted(r) = "new"
              \/ kind[r] \in {"RuledBucket", "CloudRun"} /\ Accepted(r) = "partial"
BY WantedIs DEF Accepted, Configs

\* The calls that start an operation: insert,
LEMMA InsertMoves ==
    ASSUME NEW r \in Used, Sane, Insert(r)
    PROVE  Moves(r)
<1>1. /\ m[r] \in Methods /\ todo[r] # << >> /\ Head(todo[r]) = "insert" /\ Advance(r)
      /\ job' = [job EXCEPT ![r] = "insert"] /\ cfg[r] = "none" /\ pub' = pub
      /\ UNCHANGED rest /\ refused' = refused /\ faults' = faults
      BY DEF Insert, Operation, At
<1>2. PICK c \in Configs :
          /\ Set(r, c) \/ (cfg' = cfg /\ fp' = fp /\ c = cfg[r])
          /\ c = cfg[r] \/ (kind[r] = "CloudFunction" /\ c = "partial")
      BY DEF Insert, Configs, Sane, CloudTyped
<1>3. UNCHANGED given
      BY <1>1 DEF rest, given
<1>4. /\ CloudTyped' /\ cfg'[r] = c /\ job'[r] = "insert" /\ pub'[r] = pub[r]
      /\ fp'[r] = fp[r] \/ (fp[r] = "fresh" /\ fp'[r] = "stale")
      /\ \A q \in Others(r) : CloudKept(q) /\ fp'[q] = fp[q]
  <2>1. pub[r] \in BOOLEAN /\ "insert" \in {"none", "failed", "insert", "rewrite", "remove"}
        BY DEF Sane, CloudTyped
  <2> QED
      BY <1>1, <1>2, <1>3, <2>1, CloudMoves
<1>5. /\ KnownKept(r) /\ m'[r] = m[r] /\ todo'[r] = Tail(todo[r]) /\ mutex' = mutex
      /\ Local(r)' => Moves(r)
      BY <1>1, <1>4, Gather
<1>6. Local(r)'
      BY <1>1, <1>2, <1>3, <1>4, <1>5, Starting DEF Sane, Starts
<1> QED
    BY <1>5, <1>6

\* rewrite,
LEMMA RewriteMoves ==
    ASSUME NEW r \in Used, Sane, Rewrite(r)
    PROVE  Moves(r)
<1>1. /\ m[r] \in Methods /\ todo[r] # << >> /\ Head(todo[r]) = "rewrite" /\ Advance(r)
      /\ job' = [job EXCEPT ![r] = "rewrite"] /\ cfg[r] # "none" /\ pub' = pub
      /\ UNCHANGED rest /\ refused' = refused /\ faults' = faults
      BY DEF Rewrite, Operation, At
<1>2. PICK c \in Configs : cfg' = cfg /\ fp' = fp /\ c = cfg[r]
      BY DEF Rewrite, Sane, CloudTyped
<1>3. UNCHANGED given
      BY <1>1 DEF rest, given
<1>4. /\ CloudTyped' /\ cfg'[r] = c /\ job'[r] = "rewrite" /\ pub'[r] = pub[r]
      /\ fp'[r] = fp[r] \/ (fp[r] = "fresh" /\ fp'[r] = "stale")
      /\ \A q \in Others(r) : CloudKept(q) /\ fp'[q] = fp[q]
  <2>1. pub[r] \in BOOLEAN /\ "rewrite" \in {"none", "failed", "insert", "rewrite", "remove"}
        BY DEF Sane, CloudTyped
  <2> QED
      BY <1>1, <1>2, <1>3, <2>1, CloudMoves
<1>5. /\ KnownKept(r) /\ m'[r] = m[r] /\ todo'[r] = Tail(todo[r]) /\ mutex' = mutex
      /\ Local(r)' => Moves(r)
      BY <1>1, <1>4, Gather
<1>6. Local(r)'
      BY <1>1, <1>2, <1>3, <1>4, <1>5, Starting DEF Sane, Starts
<1> QED
    BY <1>5, <1>6

\* patch,
LEMMA PatchMoves ==
    ASSUME NEW r \in Used, Sane, Patch(r)
    PROVE  Moves(r)
<1>1. /\ m[r] \in Methods /\ todo[r] # << >> /\ Head(todo[r]) = "patch" /\ Advance(r)
      /\ job' = [job EXCEPT ![r] = "rewrite"] /\ cfg[r] # "none" /\ pub' = pub
      /\ UNCHANGED rest /\ refused' = refused /\ faults' = faults
      BY DEF Patch, Operation, At
<1>2. PICK c \in Configs : cfg' = cfg /\ fp' = fp /\ c = cfg[r]
      BY DEF Patch, Sane, CloudTyped
<1>3. UNCHANGED given
      BY <1>1 DEF rest, given
<1>4. /\ CloudTyped' /\ cfg'[r] = c /\ job'[r] = "rewrite" /\ pub'[r] = pub[r]
      /\ fp'[r] = fp[r] \/ (fp[r] = "fresh" /\ fp'[r] = "stale")
      /\ \A q \in Others(r) : CloudKept(q) /\ fp'[q] = fp[q]
  <2>1. pub[r] \in BOOLEAN /\ "rewrite" \in {"none", "failed", "insert", "rewrite", "remove"}
        BY DEF Sane, CloudTyped
  <2> QED
      BY <1>1, <1>2, <1>3, <2>1, CloudMoves
<1>5. /\ KnownKept(r) /\ m'[r] = m[r] /\ todo'[r] = Tail(todo[r]) /\ mutex' = mutex
      /\ Local(r)' => Moves(r)
      BY <1>1, <1>4, Gather
<1>6. Local(r)'
      BY <1>1, <1>2, <1>3, <1>4, <1>5, Starting DEF Sane, Starts
<1> QED
    BY <1>5, <1>6

\* and remove.
LEMMA RemoveMoves ==
    ASSUME NEW r \in Used, Sane, Remove(r)
    PROVE  Moves(r)
<1>1. /\ m[r] \in Methods /\ todo[r] # << >> /\ Head(todo[r]) = "remove" /\ Advance(r)
      /\ job' = [job EXCEPT ![r] = "remove"] /\ cfg[r] # "none" /\ pub' = pub
      /\ UNCHANGED rest /\ refused' = refused /\ faults' = faults
      BY DEF Remove, Operation, At
<1>2. PICK c \in Configs : cfg' = cfg /\ fp' = fp /\ c = cfg[r]
      BY DEF Remove, Sane, CloudTyped
<1>3. UNCHANGED given
      BY <1>1 DEF rest, given
<1>4. /\ CloudTyped' /\ cfg'[r] = c /\ job'[r] = "remove" /\ pub'[r] = pub[r]
      /\ fp'[r] = fp[r] \/ (fp[r] = "fresh" /\ fp'[r] = "stale")
      /\ \A q \in Others(r) : CloudKept(q) /\ fp'[q] = fp[q]
  <2>1. pub[r] \in BOOLEAN /\ "remove" \in {"none", "failed", "insert", "rewrite", "remove"}
        BY DEF Sane, CloudTyped
  <2> QED
      BY <1>1, <1>2, <1>3, <2>1, CloudMoves
<1>5. /\ KnownKept(r) /\ m'[r] = m[r] /\ todo'[r] = Tail(todo[r]) /\ mutex' = mutex
      /\ Local(r)' => Moves(r)
      BY <1>1, <1>4, Gather
<1>6. Local(r)'
      BY <1>1, <1>2, <1>3, <1>4, <1>5, Starting DEF Sane, Starts
<1> QED
    BY <1>5, <1>6

\* The calls that are done when answered: make,
LEMMA MakeMoves ==
    ASSUME NEW r \in Used, Sane, Make(r)
    PROVE  Moves(r)
<1>1. /\ m[r] \in Methods /\ todo[r] # << >> /\ Head(todo[r]) = "make" /\ Advance(r)
      /\ Set(r, Accepted(r))
      /\ job' = [job EXCEPT ![r] = IF kind[r] = "CloudRun" THEN "rewrite" ELSE @]
      /\ pub' = pub
      /\ UNCHANGED rest /\ refused' = refused /\ faults' = faults
      BY DEF Make, At
<1>2. PICK c \in Configs, j \in {"none", "failed", "insert", "rewrite", "remove"}, p \in BOOLEAN :
          /\ Set(r, c) /\ c = Accepted(r) /\ p = pub[r]
          /\ j = IF kind[r] = "CloudRun" THEN "rewrite" ELSE job[r]
          /\ job' = [job EXCEPT ![r] = j] \/ (job' = job /\ j = job[r])
          /\ pub' = [pub EXCEPT ![r] = p] \/ (pub' = pub /\ p = pub[r])
  <2>1. /\ Accepted(r) \in Configs /\ pub[r] \in BOOLEAN
        /\ job[r] \in {"none", "failed", "insert", "rewrite", "remove"}
        BY AcceptedIs DEF Sane, CloudTyped, Configs
  <2> QED
      BY <1>1, <2>1
<1>3. UNCHANGED given
      BY <1>1 DEF rest, given
<1>4. /\ CloudTyped' /\ cfg'[r] = c /\ job'[r] = j /\ pub'[r] = p
      /\ fp'[r] = fp[r] \/ (fp[r] = "fresh" /\ fp'[r] = "stale")
      /\ \A q \in Others(r) : CloudKept(q) /\ fp'[q] = fp[q]
      BY <1>2, <1>3, CloudMoves
<1>5. /\ KnownKept(r) /\ m'[r] = m[r] /\ todo'[r] = Tail(todo[r]) /\ mutex' = mutex
      /\ Local(r)' => Moves(r)
      BY <1>1, <1>4, Gather
<1>6. Local(r)'
      BY <1>1, <1>2, <1>3, <1>4, <1>5, Doing, AcceptedIs DEF Sane
<1> QED
    BY <1>5, <1>6

\* amend,
LEMMA AmendMoves ==
    ASSUME NEW r \in Used, Sane, Amend(r)
    PROVE  Moves(r)
<1>1. /\ m[r] \in Methods /\ todo[r] # << >> /\ Head(todo[r]) = "amend" /\ Advance(r)
      /\ Set(r, Accepted(r))
      /\ job' = [job EXCEPT ![r] = IF kind[r] = "CloudRun" THEN "rewrite" ELSE @]
      /\ pub' = pub
      /\ UNCHANGED rest /\ refused' = refused /\ faults' = faults
      BY DEF Amend, At
<1>2. PICK c \in Configs, j \in {"none", "failed", "insert", "rewrite", "remove"}, p \in BOOLEAN :
          /\ Set(r, c) /\ c = Accepted(r) /\ p = pub[r]
          /\ j = IF kind[r] = "CloudRun" THEN "rewrite" ELSE job[r]
          /\ job' = [job EXCEPT ![r] = j] \/ (job' = job /\ j = job[r])
          /\ pub' = [pub EXCEPT ![r] = p] \/ (pub' = pub /\ p = pub[r])
  <2>1. /\ Accepted(r) \in Configs /\ pub[r] \in BOOLEAN
        /\ job[r] \in {"none", "failed", "insert", "rewrite", "remove"}
        BY AcceptedIs DEF Sane, CloudTyped, Configs
  <2> QED
      BY <1>1, <2>1
<1>3. UNCHANGED given
      BY <1>1 DEF rest, given
<1>4. /\ CloudTyped' /\ cfg'[r] = c /\ job'[r] = j /\ pub'[r] = p
      /\ fp'[r] = fp[r] \/ (fp[r] = "fresh" /\ fp'[r] = "stale")
      /\ \A q \in Others(r) : CloudKept(q) /\ fp'[q] = fp[q]
      BY <1>2, <1>3, CloudMoves
<1>5. /\ KnownKept(r) /\ m'[r] = m[r] /\ todo'[r] = Tail(todo[r]) /\ mutex' = mutex
      /\ Local(r)' => Moves(r)
      BY <1>1, <1>4, Gather
<1>6. Local(r)'
      BY <1>1, <1>2, <1>3, <1>4, <1>5, Doing, AcceptedIs DEF Sane
<1> QED
    BY <1>5, <1>6

\* put,
LEMMA PutMoves ==
    ASSUME NEW r \in Used, Sane, Put(r)
    PROVE  Moves(r)
<1>1. /\ m[r] \in Methods /\ todo[r] # << >> /\ Head(todo[r]) = "put" /\ Advance(r)
      /\ Set(r, "new") /\ job' = [job EXCEPT ![r] = "none"]
      /\ pub' = pub
      /\ UNCHANGED rest /\ refused' = refused /\ faults' = faults
      BY DEF Put, At
<1>2. PICK c \in Configs, j \in {"none", "failed", "insert", "rewrite", "remove"}, p \in BOOLEAN :
          /\ Set(r, c) /\ c = "new" /\ p = pub[r]
          /\ j = "none"
          /\ job' = [job EXCEPT ![r] = j] \/ (job' = job /\ j = job[r])
          /\ pub' = [pub EXCEPT ![r] = p] \/ (pub' = pub /\ p = pub[r])
  <2>1. /\ "new" \in Configs /\ pub[r] \in BOOLEAN
        BY DEF Sane, CloudTyped, Configs
  <2> QED
      BY <1>1, <2>1
<1>3. UNCHANGED given
      BY <1>1 DEF rest, given
<1>4. /\ CloudTyped' /\ cfg'[r] = c /\ job'[r] = j /\ pub'[r] = p
      /\ fp'[r] = fp[r] \/ (fp[r] = "fresh" /\ fp'[r] = "stale")
      /\ \A q \in Others(r) : CloudKept(q) /\ fp'[q] = fp[q]
      BY <1>2, <1>3, CloudMoves
<1>5. /\ KnownKept(r) /\ m'[r] = m[r] /\ todo'[r] = Tail(todo[r]) /\ mutex' = mutex
      /\ Local(r)' => Moves(r)
      BY <1>1, <1>4, Gather
<1>6. Local(r)'
      BY <1>1, <1>2, <1>3, <1>4, <1>5, Doing DEF Sane
<1> QED
    BY <1>5, <1>6

\* and drop.
LEMMA DropMoves ==
    ASSUME NEW r \in Used, Sane, Drop(r)
    PROVE  Moves(r)
<1>1. /\ m[r] \in Methods /\ todo[r] # << >> /\ Head(todo[r]) = "drop" /\ Advance(r)
      /\ Set(r, "none") /\ job' = job
      /\ pub' = [pub EXCEPT ![r] = FALSE]
      /\ UNCHANGED rest /\ refused' = refused /\ faults' = faults
      BY DEF Drop, At
<1>2. PICK c \in Configs, j \in {"none", "failed", "insert", "rewrite", "remove"}, p \in BOOLEAN :
          /\ Set(r, c) /\ c = "none" /\ p = FALSE
          /\ j = job[r]
          /\ job' = [job EXCEPT ![r] = j] \/ (job' = job /\ j = job[r])
          /\ pub' = [pub EXCEPT ![r] = p] \/ (pub' = pub /\ p = pub[r])
  <2>1. /\ "none" \in Configs /\ pub[r] \in BOOLEAN
        /\ job[r] \in {"none", "failed", "insert", "rewrite", "remove"}
        BY WantedIs DEF Sane, CloudTyped, Configs
  <2> QED
      BY <1>1, <2>1
<1>3. UNCHANGED given
      BY <1>1 DEF rest, given
<1>4. /\ CloudTyped' /\ cfg'[r] = c /\ job'[r] = j /\ pub'[r] = p
      /\ fp'[r] = fp[r] \/ (fp[r] = "fresh" /\ fp'[r] = "stale")
      /\ \A q \in Others(r) : CloudKept(q) /\ fp'[q] = fp[q]
      BY <1>2, <1>3, CloudMoves
<1>5. /\ KnownKept(r) /\ m'[r] = m[r] /\ todo'[r] = Tail(todo[r]) /\ mutex' = mutex
      /\ Local(r)' => Moves(r)
      BY <1>1, <1>4, Gather
<1>6. Local(r)'
      BY <1>1, <1>2, <1>3, <1>4, <1>5, Doing, WantedIs DEF Sane
<1> QED
    BY <1>5, <1>6

\* The error that a driver does not look at.
LEMMA UnseenMoves ==
    ASSUME NEW r \in Used, Sane, Unseen(r)
    PROVE  Moves(r)
<1>1. /\ m[r] \in Methods /\ todo[r] # << >> /\ Head(todo[r]) \in {"insert", "rewrite"}
      /\ Advance(r) /\ kind[r] \in EarlyDone /\ pub' = pub /\ job' = job
      /\ UNCHANGED rest /\ refused' = refused /\ faults < MaxFaults /\ faults' = faults + 1
      BY DEF Unseen, At
<1>2. PICK c \in Configs :
          /\ Set(r, c) \/ (cfg' = cfg /\ fp' = fp /\ c = cfg[r])
          /\ c = cfg[r] \/ (kind[r] = "CloudFunction" /\ c = "partial")
      BY DEF Unseen, Configs, Sane, CloudTyped
<1>3. UNCHANGED given
      BY <1>1 DEF rest, given
<1>4. /\ CloudTyped' /\ cfg'[r] = c /\ job'[r] = job[r] /\ pub'[r] = pub[r]
      /\ fp'[r] = fp[r] \/ (fp[r] = "fresh" /\ fp'[r] = "stale")
      /\ \A q \in Others(r) : CloudKept(q) /\ fp'[q] = fp[q]
  <2>1. job[r] \in {"none", "failed", "insert", "rewrite", "remove"} /\ pub[r] \in BOOLEAN
        BY DEF Sane, CloudTyped
  <2> QED
      BY <1>1, <1>2, <1>3, <2>1, CloudMoves
<1>5. /\ KnownKept(r) /\ m'[r] = m[r] /\ todo'[r] = Tail(todo[r]) /\ mutex' = mutex
      /\ Local(r)' => Moves(r)
      BY <1>1, <1>4, Gather
<1>6. Local(r)'
      BY <1>1, <1>2, <1>3, <1>4, <1>5, Unseeing DEF Sane
<1> QED
    BY <1>5, <1>6

\* A push that failed unseen.
LEMMA PushUnseenMoves ==
    ASSUME NEW r \in Used, Sane, PushUnseen(r)
    PROVE  Moves(r)
<1>1. /\ m[r] \in Methods /\ todo[r] # << >> /\ Head(todo[r]) = "put"
      /\ Advance(r) /\ kind[r] = "Image" /\ pub' = pub /\ job' = [job EXCEPT ![r] = "failed"]
      /\ UNCHANGED rest /\ refused' = refused /\ faults < MaxFaults /\ faults' = faults + 1
      BY DEF PushUnseen, At
<1>2. PICK c \in Configs : Set(r, c)
      BY DEF PushUnseen, Configs, Sane, CloudTyped
<1>3. UNCHANGED given
      BY <1>1 DEF rest, given
<1>4. /\ CloudTyped' /\ cfg'[r] = c /\ job'[r] = "failed" /\ pub'[r] = pub[r]
      /\ fp'[r] = fp[r] \/ (fp[r] = "fresh" /\ fp'[r] = "stale")
      /\ \A q \in Others(r) : CloudKept(q) /\ fp'[q] = fp[q]
  <2>1. pub[r] \in BOOLEAN
        BY DEF Sane, CloudTyped
  <2> QED
      BY <1>1, <1>2, <1>3, <2>1, CloudMoves
<1>5. /\ KnownKept(r) /\ m'[r] = m[r] /\ todo'[r] = Tail(todo[r]) /\ mutex' = mutex
      /\ Local(r)' => Moves(r)
      BY <1>1, <1>4, Gather
<1>6. pub[r] \in BOOLEAN
      BY DEF Sane, CloudTyped
<1>7. Local(r)'
      BY <1>1, <1>3, <1>4, <1>5, <1>6, Pushing DEF Sane
<1> QED
    BY <1>5, <1>7

\* The policy is set, or need not be.
LEMMA PolicyMoves ==
    ASSUME NEW r \in Used, Sane, Policy(r)
    PROVE  Moves(r)
<1> DEFINE p == IF Skipped(r) THEN pub[r] ELSE wantPub[r]
<1>1. /\ m[r] \in Methods /\ todo[r] # << >> /\ Head(todo[r]) \in PolicySteps
      /\ Advance(r) /\ pub' = [pub EXCEPT ![r] = p] /\ cfg' = cfg /\ job' = job /\ fp' = fp
      /\ cfg[r] # "none" \/ Skipped(r)
      /\ UNCHANGED rest /\ refused' = refused /\ faults' = faults
      BY DEF Policy, At
<1>2. UNCHANGED given
      BY <1>1 DEF rest, given
<1>3. /\ p \in BOOLEAN /\ cfg[r] \in Configs
      /\ job[r] \in {"none", "failed", "insert", "rewrite", "remove"}
      BY DEF Sane, CloudTyped, GivenTyped
<1>4. /\ CloudTyped' /\ cfg'[r] = cfg[r] /\ job'[r] = job[r] /\ pub'[r] = p
      /\ \A q \in Others(r) : CloudKept(q) /\ fp'[q] = fp[q]
  <2> HIDE DEF p
  <2> QED
      BY <1>1, <1>2, <1>3, CloudMoves
<1>5. /\ KnownKept(r) /\ m'[r] = m[r] /\ todo'[r] = Tail(todo[r]) /\ mutex' = mutex
      /\ Local(r)' => Moves(r)
      BY <1>1, <1>4, Gather
<1>6. Local(r)'
      BY <1>1, <1>2, <1>4, <1>5, SettingPolicy DEF Sane
<1> QED
    BY <1>5, <1>6

\* A call done whose answer is lost.
LEMMA LostMoves ==
    ASSUME NEW r \in Used, Sane, Lost(r)
    PROVE  Moves(r)
<1>1. /\ m[r] \in Methods /\ todo[r] # << >> /\ Fail(r)
      /\ UNCHANGED rest /\ refused' = refused /\ faults < MaxFaults /\ faults' = faults + 1
      BY DEF Lost, At
<1>2. PICK c \in Configs, j \in {"none", "failed", "insert", "rewrite", "remove"}, p \in BOOLEAN :
          /\ Set(r, c) \/ (cfg' = cfg /\ fp' = fp /\ c = cfg[r])
          /\ job' = [job EXCEPT ![r] = j] \/ (job' = job /\ j = job[r])
          /\ pub' = [pub EXCEPT ![r] = p] \/ (pub' = pub /\ p = pub[r])
          /\ \/ /\ Head(todo[r]) = "insert" /\ cfg[r] = "none" /\ j = "insert"
                /\ c = cfg[r] /\ p = pub[r]
             \/ /\ Head(todo[r]) \in {"make", "put"} /\ c # "none"
                /\ p = pub[r] /\ j = IF kind[r] = "CloudRun" THEN "rewrite" ELSE "none"
             \/ /\ Head(todo[r]) = "remove" /\ cfg[r] # "none" /\ j = "remove"
                /\ c = cfg[r] /\ p = pub[r]
             \/ Head(todo[r]) = "drop" /\ c = "none" /\ p = FALSE /\ j = job[r]
  <2>1. /\ cfg[r] \in Configs /\ pub[r] \in BOOLEAN
        /\ job[r] \in {"none", "failed", "insert", "rewrite", "remove"}
        BY DEF Sane, CloudTyped
  <2>2. CASE /\ At(r, "insert") /\ cfg[r] = "none" /\ job' = [job EXCEPT ![r] = "insert"]
             /\ cfg' = cfg /\ fp' = fp /\ pub' = pub
        BY <2>1, <2>2 DEF At
  <2>3. CASE /\ At(r, "make") \/ At(r, "put")
             /\ Set(r, Accepted(r)) /\ pub' = pub
             /\ job' = [job EXCEPT ![r] = IF kind[r] = "CloudRun" THEN "rewrite" ELSE "none"]
        BY <2>1, <2>3, AcceptedIs DEF At
  <2>4. CASE /\ At(r, "remove") /\ cfg[r] # "none" /\ job' = [job EXCEPT ![r] = "remove"]
             /\ cfg' = cfg /\ fp' = fp /\ pub' = pub
        BY <2>1, <2>4 DEF At
  <2>5. CASE /\ At(r, "drop") /\ Set(r, "none") /\ job' = job
             /\ pub' = [pub EXCEPT ![r] = FALSE]
    <3>1. "none" \in Configs
          BY DEF Configs
    <3> QED
        BY <2>1, <2>5, <3>1 DEF At
  <2> QED
      BY <2>2, <2>3, <2>4, <2>5 DEF Lost
<1>3. UNCHANGED given
      BY <1>1 DEF rest, given
<1>4. /\ CloudTyped' /\ cfg'[r] = c /\ job'[r] = j /\ pub'[r] = p
      /\ \A q \in Others(r) : CloudKept(q) /\ fp'[q] = fp[q]
      BY <1>2, <1>3, CloudMoves
<1>5. KnownKept(r) /\ m'[r] = "end" /\ (Local(r)' => Moves(r))
      BY <1>1, <1>4, Gather
<1>6. Local(r)'
      BY <1>1, <1>2, <1>3, <1>4, <1>5, Losing DEF Sane
<1> QED
    BY <1>5, <1>6

\* A fingerprint is read unless there is one.
LEMMA FetchMoves == ASSUME NEW r \in Used, Sane, Fetch(r) PROVE Moves(r)
<1>1. /\ m[r] \in Methods /\ todo[r] # << >> /\ Head(todo[r]) = "fetch" /\ Advance(r)
      /\ UNCHANGED rest /\ UNCHANGED cloud /\ refused' = refused /\ faults' = faults
      /\ fp' = [fp EXCEPT ![r] = IF @ = "none" THEN "fresh" ELSE @]
      BY DEF Fetch, At
<1> QED
    BY <1>1, AdvanceMoves DEF PolicySteps, Effects

\* An API that is on may be enabled again.
LEMMA AgainMoves == ASSUME NEW r \in Used, Sane, Again(r) PROVE Moves(r)
<1>1. /\ m[r] \in Methods /\ todo[r] # << >> /\ Head(todo[r]) = "insert" /\ Advance(r)
      /\ kind[r] = "APIService" /\ cfg[r] # "none"
      /\ UNCHANGED rest /\ UNCHANGED cloud /\ refused' = refused /\ faults' = faults
      /\ fp' = fp
      BY DEF Again, At
<1> QED
    BY <1>1, AdvanceMoves DEF PolicySteps

\* A wait that is over fails if its operation did.
LEMMA AwaitMoves == ASSUME NEW r \in Used, Sane, Await(r) PROVE Moves(r)
<1>1. /\ m[r] \in Methods /\ todo[r] # << >> /\ Head(todo[r]) = "await" /\ Over(r)
      /\ IF Fine(r) THEN Advance(r) ELSE Fail(r)
      /\ UNCHANGED rest /\ UNCHANGED cloud /\ refused' = refused /\ faults' = faults
      /\ fp' = fp
      BY DEF Await, At
<1>2. CASE Fine(r)
      BY <1>1, <1>2, AdvanceMoves DEF PolicySteps, Effects
<1>3. CASE ~Fine(r)
  <2>1. UNCHANGED given
        BY <1>1 DEF rest, given
  <2>2. CloudTyped' /\ \A q \in Used : CloudKept(q) /\ fp'[q] = fp[q]
        BY <1>1, <2>1, CloudStays DEF Sane
  <2>3. /\ KnownKept(r) /\ CountsTyped' /\ m'[r] = "end" /\ faults' >= faults
        /\ Local(r)' => Moves(r)
        BY <1>1, <1>3, <2>2, Gather DEF Others
  <2>4. job[r] \notin Running
        BY <1>1 DEF Over, Running
  <2>5. Local(r)'
        BY <1>1, <2>1, <2>2, <2>3, <2>4, Failing DEF Sane
  <2> QED
      BY <2>3, <2>5
<1> QED
    BY <1>2, <1>3

\* The waits that do not look at the error.
LEMMA SettleMoves == ASSUME NEW r \in Used, Sane, Settle(r) PROVE Moves(r)
<1>1. /\ m[r] \in Methods /\ todo[r] # << >> /\ Head(todo[r]) \in {"settle", "ready", "gone"}
      /\ Over(r) /\ Advance(r)
      /\ UNCHANGED rest /\ UNCHANGED cloud /\ refused' = refused /\ faults' = faults
      /\ fp' = fp
      BY DEF Settle, At
<1> QED
    BY <1>1, AdvanceMoves DEF PolicySteps, Effects

\* The steps without an effect.
LEMMA PassMoves == ASSUME NEW r \in Used, Sane, Pass(r) PROVE Moves(r)
<1>1. /\ m[r] \in Methods /\ todo[r] # << >> /\ Advance(r)
      /\ Head(todo[r]) \in {"repository", "dropOld", "dropVersion", "get", "empty"}
      /\ UNCHANGED rest /\ UNCHANGED cloud /\ refused' = refused /\ faults' = faults
      /\ fp' = fp
      BY DEF Pass, At
<1> QED
    BY <1>1, AdvanceMoves DEF PolicySteps, Effects

\* A wait given up: the operation goes on without its method.
LEMMA LeaveMoves == ASSUME NEW r \in Used, Sane, Leave(r) PROVE Moves(r)
<1>1. /\ m[r] \in Methods /\ todo[r] # << >>
      /\ \/ Head(todo[r]) = "settle" /\ Advance(r)
         \/ Fail(r)
      /\ UNCHANGED rest /\ UNCHANGED cloud /\ refused' = refused
      /\ faults < MaxFaults /\ faults' = faults + 1 /\ fp' = fp
      BY DEF Leave, At
<1>2. UNCHANGED given /\ faults \in Nat
      BY <1>1, DriversAssumption DEF rest, given, Sane, CountsTyped, DriversAssumption
<1>3. CASE Head(todo[r]) = "settle" /\ Advance(r)
  <2>1. Fits(kind[r], m[r], Head(todo[r]), Following(todo[r]))
        BY <1>1, Underway DEF Sane
  <2>2. kind[r] \in EarlyDone /\ faults' > 0
        BY <1>1, <1>2, <1>3, <2>1 DEF Fits, EarlyDone
  <2> QED
      BY <1>1, <1>3, <2>2, AdvanceMoves DEF PolicySteps
<1>4. CASE Fail(r)
  <2>2. CloudTyped' /\ \A q \in Used : CloudKept(q) /\ fp'[q] = fp[q]
        BY <1>1, <1>2, CloudStays DEF Sane
  <2>3. /\ KnownKept(r) /\ CountsTyped' /\ m'[r] = "end" /\ faults' >= faults
        /\ Local(r)' => Moves(r)
        BY <1>1, <1>4, <2>2, Gather DEF Others
  <2>5. Local(r)'
        BY <1>1, <1>2, <2>2, <2>3, Failing DEF Sane
  <2> QED
      BY <2>3, <2>5
<1> QED
    BY <1>1, <1>3, <1>4

\* A call that fails without a trace.
LEMMA FaultMoves == ASSUME NEW r \in Used, Sane, Fault(r) PROVE Moves(r)
<1>1. /\ m[r] \in Methods /\ todo[r] # << >> /\ Fail(r)
      /\ UNCHANGED rest /\ UNCHANGED cloud /\ refused' = refused
      /\ faults < MaxFaults /\ faults' = faults + 1 /\ fp' = fp
      BY DEF Fault
<1>2. UNCHANGED given /\ faults \in Nat
      BY <1>1, DriversAssumption DEF rest, given, Sane, CountsTyped, DriversAssumption
<1>3. CloudTyped' /\ \A q \in Used : CloudKept(q) /\ fp'[q] = fp[q]
      BY <1>1, <1>2, CloudStays DEF Sane
<1>4. /\ KnownKept(r) /\ CountsTyped' /\ m'[r] = "end" /\ faults' >= faults
      /\ Local(r)' => Moves(r)
      BY <1>1, <1>3, Gather DEF Others
<1>5. Local(r)'
      BY <1>1, <1>2, <1>3, <1>4, Failing DEF Sane
<1> QED
    BY <1>4, <1>5

\* The calls that the state of the resource forbids.
LEMMA RefusalMoves ==
    ASSUME NEW r \in Used, Sane, Exists(r) \/ PatchStale(r) \/ Absent(r) \/ PolicyAbsent(r)
    PROVE  Moves(r)
<1>1. PICK s : s # "await" /\ Refuse(r, s)
      BY DEF Exists, PatchStale, Absent, PolicyAbsent, Needing, PolicySteps
<1> QED
    BY <1>1, RefuseMoves

----------------------------------------------------------------------------
(* The cloud, and somebody else *)

\* What the cloud does leaves the methods alone.
LEMMA WorkStays ==
    ASSUME WorkTyped, UNCHANGED given, UNCHANGED <<m, todo, result, mutex>>
    PROVE  WorkTyped' /\ \A q \in Used : WorkKept(q)
BY DEF WorkTyped, WorkKept, given, Used

\* An operation ends,
LEMMA OperationEndsMoves ==
    ASSUME NEW r \in Used, Sane, OperationEnds(r)
    PROVE  Moves(r)
<1>1. /\ UNCHANGED rest /\ UNCHANGED <<m, todo, result, mutex>> /\ refused' = refused
      /\ faults' = faults /\ job' = [job EXCEPT ![r] = "none"] /\ job[r] \in Running
      BY DEF OperationEnds, Running
<1>2. UNCHANGED given /\ KnownTyped' /\ edits' = edits /\ \A q \in Used : KnownKept(q)
      BY <1>1, KnownStays DEF Sane
<1>3. CountsTyped' /\ faults' >= faults
      BY <1>1, <1>2, CountsMove DEF Sane, CountsTyped
<1>4. WorkTyped' /\ \A q \in Used : WorkKept(q)
      BY <1>1, <1>2, WorkStays DEF Sane
<1>5. PICK c \in Configs, p \in BOOLEAN :
          /\ Set(r, c) /\ (pub' = [pub EXCEPT ![r] = p] \/ (pub' = pub /\ p = pub[r]))
          /\ \/ job[r] = "insert" /\ c = Wanted(r) /\ p = pub[r]
             \/ /\ job[r] = "rewrite" /\ p = pub[r]
                /\ c = IF cfg[r] = "none" THEN "none" ELSE Wanted(r)
             \/ job[r] = "remove" /\ c = "none" /\ p = FALSE
  <2>1. "none" \in Configs /\ Wanted(r) \in Configs /\ pub[r] \in BOOLEAN
        BY WantedIs DEF Configs, Sane, CloudTyped
  <2>2. CASE job[r] = "insert" /\ Set(r, Wanted(r)) /\ pub' = pub
        BY <2>1, <2>2
  <2>3. CASE /\ job[r] = "rewrite" /\ pub' = pub
             /\ Set(r, IF cfg[r] = "none" THEN "none" ELSE Wanted(r))
        BY <2>1, <2>3
  <2>4. CASE job[r] = "remove" /\ Set(r, "none") /\ pub' = [pub EXCEPT ![r] = FALSE]
        BY <2>1, <2>4
  <2> QED
      BY <2>2, <2>3, <2>4 DEF OperationEnds
<1>6. /\ CloudTyped' /\ cfg'[r] = c /\ job'[r] = "none" /\ pub'[r] = p
      /\ fp'[r] = fp[r] \/ (fp[r] = "fresh" /\ fp'[r] = "stale")
      /\ \A q \in Others(r) : CloudKept(q) /\ fp'[q] = fp[q]
      BY <1>1, <1>2, <1>5, CloudMoves
<1>7. Local(r)'
      BY <1>1, <1>2, <1>4, <1>5, <1>6, Ending DEF Sane
<1> QED
    BY <1>1, <1>2, <1>3, <1>4, <1>6, <1>7 DEF Moves, Kept, Others

\* or fails.
LEMMA OperationFailsMoves ==
    ASSUME NEW r \in Used, Sane, OperationFails(r)
    PROVE  Moves(r)
<1>1. /\ UNCHANGED rest /\ UNCHANGED <<m, todo, result, mutex>> /\ refused' = refused
      /\ faults < MaxFaults /\ faults' = faults + 1
      /\ ~(kind[r] = "CloudRun" /\ job[r] = "remove")
      /\ cfg' = cfg /\ pub' = pub /\ fp' = fp
      /\ job' = [job EXCEPT ![r] = "failed"] /\ job[r] \in Running
      BY DEF OperationFails, Running
<1>2. UNCHANGED given /\ KnownTyped' /\ edits' = edits /\ \A q \in Used : KnownKept(q)
      BY <1>1, KnownStays DEF Sane
<1>3. CountsTyped' /\ faults' >= faults
      BY <1>1, <1>2, CountsMove DEF Sane, CountsTyped
<1>4. WorkTyped' /\ \A q \in Used : WorkKept(q)
      BY <1>1, <1>2, WorkStays DEF Sane
<1>5. /\ CloudTyped' /\ cfg'[r] = cfg[r] /\ job'[r] = "failed" /\ pub'[r] = pub[r]
      /\ \A q \in Others(r) : CloudKept(q) /\ fp'[q] = fp[q]
  <2>1. cfg[r] \in Configs /\ pub[r] \in BOOLEAN
        BY DEF Sane, CloudTyped
  <2> QED
      BY <1>1, <1>2, <2>1, CloudMoves
<1>6. Local(r)'
      BY <1>1, <1>2, <1>4, <1>5, Breaking DEF Sane
<1> QED
    BY <1>1, <1>2, <1>3, <1>4, <1>5, <1>6 DEF Moves, Kept, Others

\* Somebody else changes the resource, and any fingerprint of it is old.
LEMMA EditMoves ==
    ASSUME NEW r \in Used, Sane, Edit(r)
    PROVE  Moves(r)
<1>1. /\ UNCHANGED given /\ UNCHANGED known /\ saved' = saved
      /\ UNCHANGED <<m, todo, result, mutex>> /\ refused' = refused /\ faults' = faults
      /\ job' = job /\ edits < MaxEdits /\ edits' = edits + 1
      /\ edited' = [edited EXCEPT ![r] = TRUE] /\ cfg[r] # "none" /\ Over(r)
      BY DEF Edit
<1>2. CountsTyped' /\ faults' >= faults
      BY <1>1, CountsMove DEF Sane, CountsTyped
<1>3. WorkTyped' /\ \A q \in Used : WorkKept(q)
      BY <1>1, WorkStays DEF Sane
<1>4. Used' = Used
      BY <1>1 DEF given, Used
<1>5. /\ edited' \in [Used -> BOOLEAN] /\ edited'[r] = TRUE
      /\ \A q \in Others(r) : edited'[q] = edited[q]
      BY <1>1 DEF Sane, KnownTyped, Others
<1>6. record' = record /\ recPub' = recPub
      BY <1>1 DEF known
<1>7. KnownTyped' /\ \A q \in Others(r) : KnownKept(q)
      BY <1>1, <1>4, <1>5, <1>6 DEF Sane, KnownTyped, KnownKept, Others
<1>8. PICK c \in Configs, p \in BOOLEAN :
          /\ pub' = [pub EXCEPT ![r] = p] \/ (pub' = pub /\ p = pub[r])
          /\ \/ Touch(r, c) /\ kind[r] # "APIService" /\ c = "other" /\ p = pub[r]
             \/ Touch(r, c) /\ c = "none" /\ p = FALSE
             \/ cfg' = cfg /\ fp' = fp /\ c = cfg[r] /\ kind[r] \in WithPolicy
  <2>1. "none" \in Configs /\ "other" \in Configs /\ pub[r] \in BOOLEAN /\ cfg[r] \in Configs
        BY DEF Configs, Sane, CloudTyped
  <2>2. CASE kind[r] # "APIService" /\ Touch(r, "other") /\ pub' = pub
        BY <2>1, <2>2
  <2>3. CASE Touch(r, "none") /\ pub' = [pub EXCEPT ![r] = FALSE]
        BY <2>1, <2>3
  <2>4. CASE /\ kind[r] \in WithPolicy /\ pub' = [pub EXCEPT ![r] = ~@]
             /\ cfg' = cfg /\ fp' = fp
    <3>1. PICK p \in BOOLEAN : pub' = [pub EXCEPT ![r] = p]
      <4>1. CASE pub[r] = TRUE
        <5>1. pub' = [pub EXCEPT ![r] = FALSE]
              BY <2>4, <4>1
        <5> QED
            BY <5>1
      <4>2. CASE pub[r] = FALSE
        <5>1. pub' = [pub EXCEPT ![r] = TRUE]
              BY <2>4, <4>2
        <5> QED
            BY <5>1
      <4> QED
          BY <2>1, <4>1, <4>2
    <3> QED
        BY <2>1, <2>4, <3>1
  <2> QED
      BY <2>2, <2>3, <2>4 DEF Edit
<1>9. /\ CloudTyped' /\ cfg'[r] = c /\ job'[r] = job[r] /\ pub'[r] = p
      /\ fp'[r] = fp[r] \/ (fp[r] = "fresh" /\ fp'[r] = "stale")
      /\ Touch(r, c) => fp'[r] # "fresh"
      /\ \A q \in Others(r) : CloudKept(q) /\ fp'[q] = fp[q]
  <2>1. job[r] \in {"none", "failed", "insert", "rewrite", "remove"}
        BY DEF Sane, CloudTyped
  <2> QED
      BY <1>1, <1>8, <2>1, CloudMoves
<1>10. Local(r)'
      BY <1>1, <1>3, <1>5, <1>6, <1>8, <1>9, Editing DEF Sane
<1> QED
    BY <1>1, <1>2, <1>3, <1>7, <1>9, <1>10 DEF Moves, Kept, Others

----------------------------------------------------------------------------
(* The registry *)

\* Outside its methods a resource has no operation of its own, until something fails.
LEMMA AtRest ==
    ASSUME NEW r \in Used, Local(r), m[r] \notin Methods
    PROVE  faults = 0 /\ kind[r] \in OnInstance => job[r] \notin Running
BY DEF Local, Apart

\* Read brings the record, the policy and the fingerprint up to date.
LEMMA ReadMoves ==
    ASSUME NEW r \in Used, Sane, Read(r)
    PROVE  Moves(r)
<1>1. /\ UNCHANGED given /\ UNCHANGED cloud /\ saved' = saved /\ todo' = todo
      /\ result' = result /\ mutex' = mutex /\ refused' = refused /\ faults' = faults
      /\ edits' = edits /\ m[r] = "read"
      BY DEF Read
<1>2. /\ kind' = kind /\ goal' = goal /\ reads' = reads /\ wantPub' = wantPub /\ Used' = Used
      /\ cfg' = cfg /\ pub' = pub /\ job' = job
      BY <1>1 DEF given, cloud, Used
<1>3. CountsTyped' /\ faults' >= faults
      BY <1>1, CountsMove DEF Sane, CountsTyped
<1>4. PICK x \in {"diff", "unread"}, rec \in Configs, rp \in BOOLEAN,
           f \in {"none", "fresh", "stale"}, e \in BOOLEAN :
          /\ m' = [m EXCEPT ![r] = x]
          /\ record' = [record EXCEPT ![r] = rec] \/ (record' = record /\ rec = record[r])
          /\ recPub' = [recPub EXCEPT ![r] = rp] \/ (recPub' = recPub /\ rp = recPub[r])
          /\ fp' = [fp EXCEPT ![r] = f] \/ (fp' = fp /\ f = fp[r])
          /\ edited' = [edited EXCEPT ![r] = e] \/ (edited' = edited /\ e = edited[r])
          /\ \/ /\ rec = record[r] /\ rp = recPub[r] /\ f = fp[r] /\ e = edited[r]
                /\ kind[r] \in ServerNamed
             \/ /\ rp = pub[r] /\ e = FALSE /\ (rec = "none" <=> cfg[r] = "none")
                /\ kind[r] \in Fingerprinted /\ cfg[r] # "none" => f = "fresh"
  <2>1. CASE kind[r] \in ServerNamed /\ (record[r] = "none" \/ cfg[r] = "none")
    <3>1. PICK x \in {"diff", "unread"} : m' = [m EXCEPT ![r] = x]
          BY <2>1 DEF Read
    <3>2. record' = record /\ recPub' = recPub /\ fp' = fp /\ edited' = edited
          BY <2>1 DEF Read, known
    <3>3. /\ record[r] \in Configs /\ recPub[r] \in BOOLEAN /\ edited[r] \in BOOLEAN
          /\ fp[r] \in {"none", "fresh", "stale"}
          BY DEF Sane, KnownTyped, CloudTyped
    <3> QED
        BY <2>1, <3>1, <3>2, <3>3
  <2>2. CASE ~(kind[r] \in ServerNamed /\ (record[r] = "none" \/ cfg[r] = "none"))
    <3> DEFINE f == IF kind[r] \in Fingerprinted /\ cfg[r] # "none" THEN "fresh" ELSE fp[r]
    <3>0. PICK c \in Sees(r) : record' = [record EXCEPT ![r] = c]
          BY <2>2 DEF Read
    <3>1. /\ m' = [m EXCEPT ![r] = "diff"]
          /\ recPub' = [recPub EXCEPT ![r] = pub[r]] /\ fp' = [fp EXCEPT ![r] = f]
          /\ edited' = [edited EXCEPT ![r] = FALSE]
          BY <2>2 DEF Read
    <3>2. /\ c \in Configs /\ (c = "none" <=> cfg[r] = "none") /\ pub[r] \in BOOLEAN
          /\ f \in {"none", "fresh", "stale"}
          /\ kind[r] \in Fingerprinted /\ cfg[r] # "none" => f = "fresh"
      <4>1. cfg[r] \in Configs /\ record[r] \in Configs
            BY DEF Sane, CloudTyped, KnownTyped
      <4>2. c \in Configs /\ (c = "none" <=> cfg[r] = "none")
            BY <3>0, <4>1 DEF Sees, Configs
      <4> QED
          BY <4>2 DEF Sane, CloudTyped
    <3> HIDE DEF f
    <3> QED
        BY <3>0, <3>1, <3>2
  <2> QED
      BY <2>1, <2>2
<1>5. /\ m' \in [Used -> Methods \cup {"idle", "read", "diff", "unread", "end"}] /\ m'[r] = x
      /\ \A q \in Others(r) : m'[q] = m[q]
      BY <1>4 DEF Sane, WorkTyped, Others
<1>6. mutex # r
      BY <1>1, KindFacts DEF Sane, WorkTyped, Methods
<1>7. WorkTyped' /\ \A q \in Others(r) : WorkKept(q)
  <2>1. mutex # None => mutex \in Others(r)
        BY <1>6 DEF Sane, WorkTyped, Others
  <2>2. mutex # None => m'[mutex] \in Methods /\ kind[mutex] \in OnInstance
        BY <1>5, <2>1 DEF Sane, WorkTyped
  <2>3. WorkTyped'
        BY <1>1, <1>2, <1>5, <2>2 DEF Sane, WorkTyped
  <2> QED
      BY <1>1, <1>5, <2>3 DEF WorkKept
<1>8. /\ record' \in [Used -> Configs] /\ record'[r] = rec
      /\ \A q \in Others(r) : record'[q] = record[q]
      BY <1>4 DEF Sane, KnownTyped, Others
<1>9. /\ recPub' \in [Used -> BOOLEAN] /\ recPub'[r] = rp
      /\ \A q \in Others(r) : recPub'[q] = recPub[q]
      BY <1>4 DEF Sane, KnownTyped, Others
<1>10. /\ edited' \in [Used -> BOOLEAN] /\ edited'[r] = e
       /\ \A q \in Others(r) : edited'[q] = edited[q]
       BY <1>4 DEF Sane, KnownTyped, Others
<1>11. /\ fp' \in [Used -> {"none", "fresh", "stale"}] /\ fp'[r] = f
       /\ \A q \in Others(r) : fp'[q] = fp[q]
       BY <1>4 DEF Sane, CloudTyped, Others
<1>12. KnownTyped' /\ \A q \in Others(r) : KnownKept(q)
       BY <1>1, <1>2, <1>8, <1>9, <1>10 DEF Sane, KnownTyped, KnownKept, Others
<1>13. CloudTyped' /\ \A q \in Others(r) : CloudKept(q) /\ fp'[q] = fp[q]
       BY <1>2, <1>11 DEF Sane, CloudTyped, CloudKept, Others
<1>14. Local(r) /\ m[r] \notin Methods /\ m'[r] \notin Methods
       BY <1>1, <1>5 DEF Sane, Methods
<1>15. Course(r)' /\ Effective(r)'
       BY <1>14 DEF Course, Effective, Works, Methods
<1>16. Apart(r)'
       BY <1>1, <1>2, <1>14, AtRest DEF Apart
<1>17. Operations(r)'
       BY <1>1, <1>2, <1>14 DEF Local, Operations
<1>18. Public(r)'
  <2>1. ~Works(r) /\ ~Works(r)'
        BY <1>14 DEF Works, Methods
  <2> QED
      BY <1>1, <1>2, <1>4, <1>8, <1>9, <1>10, <1>14, <2>1 DEF Public, Local
<1>19. Prints(r)'
       BY <1>2, <1>4, <1>5, <1>8, <1>10, <1>11, KindSets DEF Prints
<1> QED
    BY <1>1, <1>3, <1>7, <1>12, <1>13, <1>14, <1>15, <1>16, <1>17, <1>18, <1>19
    DEF Moves, Kept, Local

\* A Read that fails changes nothing.
LEMMA ReadFailsMoves ==
    ASSUME NEW r \in Used, Sane, ReadFails(r)
    PROVE  Moves(r)
<1>1. /\ UNCHANGED given /\ UNCHANGED cloud /\ UNCHANGED known /\ saved' = saved /\ todo' = todo
      /\ result' = result /\ mutex' = mutex /\ refused' = refused /\ fp' = fp
      /\ edited' = edited /\ edits' = edits /\ m[r] = "read"
      /\ m' = [m EXCEPT ![r] = "unread"] /\ faults < MaxFaults /\ faults' = faults + 1
      BY DEF ReadFails
<1>2. /\ UNCHANGED rest /\ kind' = kind /\ Used' = Used
      BY <1>1 DEF rest, given, Used
<1>3. KnownTyped' /\ \A q \in Used : KnownKept(q)
      BY <1>2, KnownStays DEF Sane
<1>4. CloudTyped' /\ \A q \in Used : CloudKept(q) /\ fp'[q] = fp[q]
      BY <1>1, CloudStays DEF Sane
<1>5. CountsTyped' /\ faults' >= faults /\ faults \in Nat
      BY <1>1, CountsMove DEF Sane, CountsTyped
<1>6. /\ m' \in [Used -> Methods \cup {"idle", "read", "diff", "unread", "end"}]
      /\ m'[r] = "unread" /\ \A q \in Others(r) : m'[q] = m[q]
      BY <1>1 DEF Sane, WorkTyped, Others
<1>7. WorkTyped' /\ \A q \in Others(r) : WorkKept(q)
  <2>1. mutex # None => mutex \in Others(r)
        BY <1>1 DEF Sane, WorkTyped, Others, Methods
  <2>2. mutex # None => m'[mutex] \in Methods /\ kind[mutex] \in OnInstance
        BY <1>6, <2>1 DEF Sane, WorkTyped
  <2>3. WorkTyped'
        BY <1>1, <1>2, <1>6, <2>2 DEF Sane, WorkTyped
  <2> QED
      BY <1>1, <1>6, <2>3 DEF WorkKept
<1>8. Local(r)'
  <2>1. /\ Local(r) /\ m[r] \notin Methods /\ m'[r] = "unread" /\ faults' > 0
        /\ cfg'[r] = cfg[r] /\ pub'[r] = pub[r] /\ job'[r] = job[r]
        /\ record'[r] = record[r] /\ recPub'[r] = recPub[r] /\ saved'[r] = saved[r]
        /\ edited'[r] = edited[r]
        /\ kind' = kind /\ goal' = goal /\ reads' = reads /\ wantPub' = wantPub
        BY <1>1, <1>3, <1>4, <1>5, <1>6 DEF Sane, Methods, CloudKept, KnownKept, given
  <2>2. Course(r)' /\ Effective(r)' /\ Prints(r)' /\ Apart(r)'
        BY <2>1 DEF Course, Effective, Prints, Apart, Works, Methods
  <2>3. Operations(r)'
        BY <2>1 DEF Operations, Local
  <2>4. Public(r)'
        BY <2>1 DEF Public, Works, Local, Methods
  <2> QED
      BY <2>2, <2>3, <2>4 DEF Local
<1> QED
    BY <1>1, <1>3, <1>4, <1>5, <1>6, <1>7, <1>8 DEF Moves, Kept, Others

\* A method that starts.
LEMMA Begins ==
    ASSUME NEW r \in Used, GivenTyped, NEW x \in Methods, x = "update" => kind[r] \notin Replaced
    PROVE  /\ Driver[kind[r]][x] \in Seq(Steps) /\ Rest(kind[r], x, Driver[kind[r]][x])
           /\ kind[r] # "APIService" \/ x # "delete" =>
                 Acts(Driver[kind[r]][x]) /\ Driver[kind[r]][x] # << >>
           /\ kind[r] \in {"CloudSQLUser", "CloudSQLDatabase"} =>
                 Head(Driver[kind[r]][x]) = "lock"
<1>1. Sound(kind[r], x, Driver[kind[r]][x])
      BY Scripts, KindFacts
<1>2. Driver[kind[r]][x] \in Seq(Steps)
      BY <1>1 DEF Sound, Rest
<1>3. Acts(Driver[kind[r]][x]) => Driver[kind[r]][x] # << >>
      BY <1>2 DEF Acts
<1> QED
    BY <1>1, <1>2, <1>3 DEF Sound, Whole

\* How a method that starts is in the invariant.
LEMMA Entering ==
    ASSUME NEW r \in Used, UNCHANGED given, GivenTyped, CountsTyped, Local(r), faults' = faults,
           CloudKept(r), NEW x \in Methods, m'[r] = x, todo'[r] = Driver[kind[r]][x],
           saved'[r] = saved[r], edited'[r] = edited[r], fp'[r] = fp[r],
           x = "update" => kind[r] \notin Replaced,
           x = "delete" /\ goal = "new" => kind[r] \in Replaced,
           x = "create" => record'[r] = "none",
           goal = "none" => x = "delete",
           m[r] = "diff" \/ (m[r] = "delete" /\ todo[r] = << >> /\ goal = "new"),
           m[r] = "diff" => record'[r] = record[r] /\ recPub'[r] = recPub[r],
           m[r] = "delete" => x = "create" /\ recPub'[r] = FALSE,
           x = "update" => m[r] = "diff" /\ record[r] # "none"
    PROVE  Local(r)'
<1>1. /\ kind' = kind /\ goal' = goal /\ reads' = reads /\ wantPub' = wantPub
      /\ cfg'[r] = cfg[r] /\ pub'[r] = pub[r] /\ job'[r] = job[r]
      BY DEF given, CloudKept
<1>2. /\ Rest(kind[r], x, todo'[r])
      /\ kind[r] # "APIService" \/ x # "delete" => Acts(todo'[r]) /\ todo'[r] # << >>
      /\ kind[r] \in {"CloudSQLUser", "CloudSQLDatabase"} => Head(todo'[r]) = "lock"
      BY Begins
<1>3. Course(r)'
      BY <1>1, <1>2 DEF Course
<1>4. Apart(r)'
  <2>1. faults = 0 /\ kind[r] \in OnInstance => job[r] \notin Running
        BY DEF Local, Apart, NextIn, Methods
  <2> QED
      BY <1>1, <1>2, <2>1 DEF Apart
<1>5. Operations(r)'
      BY <1>1 DEF Operations, Local
<1>6. Effective(r)'
      BY <1>1, <1>2 DEF Effective, Works, Overclaims
<1>7. Public(r)'
  <2>1. ~(Works(r)' /\ todo'[r] = << >>)
        BY <1>2 DEF Works
  <2>2. ~Works(r)
        BY DEF Works
  <2>3. m[r] = "delete" => kind[r] \notin WithPolicy
        BY KindSets DEF Local, Course, Methods
  <2> QED
      BY <1>1, <2>1, <2>2, <2>3 DEF Public, Local, Methods
<1>8. Prints(r)'
      BY <1>1 DEF Prints, Local, Methods
<1> QED
    BY <1>3, <1>4, <1>5, <1>6, <1>7, <1>8 DEF Local

\* The method that a difference calls for.
LEMMA Methodic ==
    ASSUME NEW r \in Used, Sane
    PROVE  /\ Method(r) \in Methods \cup {"end"}
           /\ Method(r) = "update" => kind[r] \notin Replaced /\ record[r] # "none"
           /\ Method(r) = "delete" /\ goal = "new" => kind[r] \in Replaced
           /\ Method(r) = "create" => record[r] = "none"
           /\ goal = "none" /\ Method(r) \in Methods => Method(r) = "delete"
<1>1. goal \in {"new", "none"}
      BY DEF Sane, GivenTyped
<1> QED
    BY <1>1 DEF Method, Methods

\* A method starts with the whole script of its driver.
LEMMA DiffMoves ==
    ASSUME NEW r \in Used, Sane, Diff(r)
    PROVE  Moves(r)
<1>1. /\ UNCHANGED given /\ UNCHANGED cloud /\ UNCHANGED known /\ saved' = saved
      /\ result' = result /\ mutex' = mutex /\ refused' = refused /\ fp' = fp
      /\ edited' = edited /\ edits' = edits /\ m[r] = "diff" /\ faults' = faults
      BY DEF Diff
<1>2. PICK x \in Methods \cup {"end"} :
          /\ x = "end" \/ x = Method(r)
          /\ m' = [m EXCEPT ![r] = x]
          /\ todo' = [todo EXCEPT ![r] = Script(r, x)]
  <2>1. CASE \E q \in Used : m[q] = "unread"
        BY <2>1 DEF Diff
  <2>2. CASE ~ \E q \in Used : m[q] = "unread"
        BY <2>2, Methodic DEF Diff
  <2> QED
      BY <2>1, <2>2
<1>3. UNCHANGED rest /\ kind' = kind /\ Used' = Used
      BY <1>1 DEF rest, given, Used
<1>4. KnownTyped' /\ \A q \in Used : KnownKept(q)
      BY <1>3, KnownStays DEF Sane
<1>5. CloudTyped' /\ \A q \in Used : CloudKept(q) /\ fp'[q] = fp[q]
      BY <1>1, CloudStays DEF Sane
<1>6. CountsTyped' /\ faults' >= faults
      BY <1>1, CountsMove DEF Sane, CountsTyped
<1>7. Script(r, x) \in Seq(Steps)
  <2>1. CASE x \in Methods
        BY <1>2, <2>1, Begins, Methodic DEF Script, Sane, Methods
  <2>2. CASE x \notin Methods
        BY <2>2 DEF Script
  <2> QED
      BY <2>1, <2>2
<1>8. /\ m' \in [Used -> Methods \cup {"idle", "read", "diff", "unread", "end"}]
      /\ m'[r] = x /\ \A q \in Others(r) : m'[q] = m[q]
      BY <1>2 DEF Sane, WorkTyped, Others
<1>9. /\ todo' \in [Used -> Seq(Steps)]
      /\ todo'[r] = Script(r, x) /\ \A q \in Others(r) : todo'[q] = todo[q]
      BY <1>2, <1>7 DEF Sane, WorkTyped, Others
<1>10. WorkTyped' /\ \A q \in Others(r) : WorkKept(q)
  <2>1. mutex # None => mutex \in Others(r)
        BY <1>1 DEF Sane, WorkTyped, Others, Methods
  <2>2. mutex # None => m'[mutex] \in Methods /\ kind[mutex] \in OnInstance
        BY <1>8, <2>1 DEF Sane, WorkTyped
  <2>3. WorkTyped'
        BY <1>1, <1>3, <1>8, <1>9, <2>2 DEF Sane, WorkTyped
  <2> QED
      BY <1>1, <1>8, <1>9, <2>3 DEF WorkKept
<1>11. Local(r)'
  <2>1. CASE x \in Methods
    <3>1. x = Method(r)
          BY <1>2, <2>1 DEF Methods
    <3>2. todo'[r] = Driver[kind[r]][x]
          BY <1>9, <2>1 DEF Script
    <3>3. /\ Local(r) /\ CloudKept(r) /\ record'[r] = record[r] /\ recPub'[r] = recPub[r]
          /\ saved'[r] = saved[r] /\ edited'[r] = edited[r] /\ fp'[r] = fp[r]
          BY <1>4, <1>5 DEF Sane, KnownKept
    <3> QED
        BY <1>1, <1>8, <2>1, <3>1, <3>2, <3>3, Methodic, Entering DEF Sane
  <2>2. CASE x = "end"
    <3>1. /\ Local(r) /\ m[r] \notin Methods /\ m'[r] = "end" /\ faults' = faults
          /\ cfg'[r] = cfg[r] /\ pub'[r] = pub[r] /\ job'[r] = job[r]
          /\ record'[r] = record[r] /\ recPub'[r] = recPub[r] /\ saved'[r] = saved[r]
          /\ edited'[r] = edited[r]
          /\ kind' = kind /\ goal' = goal /\ reads' = reads /\ wantPub' = wantPub
          BY <1>1, <1>4, <1>5, <1>8, <2>2 DEF Sane, Methods, CloudKept, KnownKept, given
    <3>2. Course(r)' /\ Effective(r)' /\ Prints(r)'
          BY <3>1 DEF Course, Effective, Prints, Works, Methods
    <3>3. Apart(r)'
          BY <3>1, AtRest DEF Apart, Methods
    <3>4. Operations(r)'
          BY <3>1 DEF Operations, Local
    <3>5. Public(r)'
          BY <3>1 DEF Public, Works, Local, Methods
    <3> QED
        BY <3>2, <3>3, <3>4, <3>5 DEF Local
  <2> QED
      BY <2>1, <2>2
<1> QED
    BY <1>1, <1>4, <1>5, <1>6, <1>10, <1>11 DEF Moves, Kept, Others

\* A method that is over records what it did; Delete goes on to Create.
LEMMA ReturnMoves ==
    ASSUME NEW r \in Used, Sane, Return(r)
    PROVE  Moves(r)
<1>1. /\ UNCHANGED given /\ UNCHANGED cloud /\ saved' = saved /\ refused' = refused /\ fp' = fp
      /\ edited' = edited /\ edits' = edits /\ faults' = faults
      /\ m[r] \in Methods /\ todo[r] = << >>
      /\ record' = [record EXCEPT ![r] = IF m[r] = "delete" THEN "none" ELSE "new"]
      /\ recPub' = [recPub EXCEPT ![r] = m[r] # "delete" /\ wantPub[r]]
      /\ mutex' = IF mutex = r THEN None ELSE mutex
      BY DEF Return, Unlock
<1>2. PICK x \in {"create", "end"}, t \in Seq(Steps), a \in {"none", "ok", "error"} :
          /\ m' = [m EXCEPT ![r] = x]
          /\ todo' = [todo EXCEPT ![r] = t] \/ (todo' = todo /\ t = todo[r])
          /\ result' = [result EXCEPT ![r] = a] \/ (result' = result /\ a = result[r])
          /\ x = "create" => m[r] = "delete" /\ goal = "new" /\ t = Driver[kind[r]]["create"]
          /\ x = "end" => m[r] # "delete" \/ goal = "none"
  <2>1. todo[r] \in Seq(Steps) /\ result[r] \in {"none", "ok", "error"} /\ goal \in {"new", "none"}
        BY DEF Sane, WorkTyped, GivenTyped
  <2>2. CASE m[r] = "delete" /\ goal = "new"
    <3>1. Driver[kind[r]]["create"] \in Seq(Steps)
          BY Begins DEF Sane, Methods
    <3>2. /\ m' = [m EXCEPT ![r] = "create"] /\ result' = result
          /\ todo' = [todo EXCEPT ![r] = Driver[kind[r]]["create"]]
          BY <2>2 DEF Return
    <3> QED
        BY <2>1, <2>2, <3>1, <3>2
  <2>3. CASE ~(m[r] = "delete" /\ goal = "new")
    <3>1. /\ m' = [m EXCEPT ![r] = "end"] /\ result' = [result EXCEPT ![r] = "ok"]
          /\ todo' = todo
          BY <2>3 DEF Return
    <3> QED
        BY <2>1, <2>3, <3>1
  <2> QED
      BY <2>2, <2>3
<1>3. /\ kind' = kind /\ goal' = goal /\ reads' = reads /\ wantPub' = wantPub /\ Used' = Used
      BY <1>1 DEF given, Used
<1>4. CloudTyped' /\ \A q \in Used : CloudKept(q) /\ fp'[q] = fp[q]
      BY <1>1, CloudStays DEF Sane
<1>5. CountsTyped' /\ faults' >= faults
      BY <1>1, CountsMove DEF Sane, CountsTyped
<1>6. /\ record' \in [Used -> Configs]
      /\ record'[r] = IF m[r] = "delete" THEN "none" ELSE "new"
      /\ \A q \in Others(r) : record'[q] = record[q]
      BY <1>1 DEF Sane, KnownTyped, Others, Configs
<1>7. PICK p \in BOOLEAN : /\ recPub' = [recPub EXCEPT ![r] = p]
                           /\ m[r] = "delete" => p = FALSE
                           /\ m[r] # "delete" => p = wantPub[r]
  <2>1. wantPub[r] \in BOOLEAN
        BY DEF Sane, GivenTyped
  <2>2. CASE m[r] # "delete" /\ wantPub[r] = TRUE
    <3>1. recPub' = [recPub EXCEPT ![r] = TRUE]
          BY <1>1, <2>2
    <3> QED
        BY <2>2, <3>1
  <2>3. CASE m[r] = "delete" \/ wantPub[r] = FALSE
    <3>1. recPub' = [recPub EXCEPT ![r] = FALSE]
          BY <1>1, <2>3
    <3> QED
        BY <2>3, <3>1
  <2> QED
      BY <2>1, <2>2, <2>3
<1>8. /\ recPub' \in [Used -> BOOLEAN] /\ recPub'[r] = p
      /\ \A q \in Others(r) : recPub'[q] = recPub[q]
      BY <1>7 DEF Sane, KnownTyped, Others
<1>9. KnownTyped' /\ \A q \in Others(r) : KnownKept(q)
      BY <1>1, <1>3, <1>6, <1>8 DEF Sane, KnownTyped, KnownKept
<1>10. /\ m' \in [Used -> Methods \cup {"idle", "read", "diff", "unread", "end"}]
       /\ m'[r] = x /\ \A q \in Others(r) : m'[q] = m[q]
       BY <1>2 DEF Sane, WorkTyped, Others, Methods
<1>11. /\ todo' \in [Used -> Seq(Steps)]
       /\ todo'[r] = t /\ \A q \in Others(r) : todo'[q] = todo[q]
       BY <1>2 DEF Sane, WorkTyped, Others
<1>12. /\ result' \in [Used -> {"none", "ok", "error"}]
       /\ \A q \in Others(r) : result'[q] = result[q]
       BY <1>2 DEF Sane, WorkTyped, Others
<1>13. WorkTyped' /\ \A q \in Others(r) : WorkKept(q)
  <2>1. /\ mutex' \in Used \cup {None}
        /\ mutex' # None => mutex' = mutex /\ mutex \in Others(r)
        BY <1>1 DEF Sane, WorkTyped, Others
  <2>2. mutex' # None => m'[mutex'] \in Methods /\ kind[mutex'] \in OnInstance
        BY <1>10, <2>1 DEF Sane, WorkTyped
  <2>3. WorkTyped'
        BY <1>3, <1>10, <1>11, <1>12, <2>1, <2>2 DEF WorkTyped
  <2> QED
      BY <1>1, <1>10, <1>11, <1>12, <2>3 DEF WorkKept, Others
<1>14. Local(r)'
  <2>1. /\ Local(r) /\ CloudKept(r) /\ fp'[r] = fp[r] /\ saved'[r] = saved[r]
        /\ edited'[r] = edited[r]
        BY <1>1, <1>4 DEF Sane
  <2>2. CASE x = "create"
    <3>1. m[r] = "delete" /\ goal = "new" /\ todo'[r] = Driver[kind[r]]["create"]
          BY <1>2, <1>11, <2>2
    <3>2. record'[r] = "none" /\ recPub'[r] = FALSE /\ m'[r] = "create"
          BY <1>6, <1>7, <1>8, <1>10, <2>2, <3>1
    <3> QED
        BY <1>1, <2>1, <3>1, <3>2, Entering DEF Sane, Methods
  <2>3. CASE x = "end"
    <3>1. /\ m'[r] = "end" /\ (m[r] # "delete" \/ goal = "none")
          /\ cfg'[r] = cfg[r] /\ pub'[r] = pub[r] /\ job'[r] = job[r]
          BY <1>2, <1>10, <2>1, <2>3 DEF CloudKept
    <3>2. Course(r)' /\ Effective(r)' /\ Prints(r)'
          BY <3>1 DEF Course, Effective, Prints, Works, Methods
    <3>3. Apart(r)'
      <4>1. faults = 0 /\ kind[r] \in OnInstance => job[r] \notin Running
            BY <1>1, <2>1 DEF Local, Apart, NextIn
      <4> QED
          BY <1>1, <1>3, <3>1, <4>1 DEF Apart, Methods
    <3>4. Operations(r)'
          BY <1>1, <1>3, <2>1, <3>1 DEF Operations, Local
    <3>5. Public(r)'
      <4>1. goal = "new" => Works(r)
            BY <1>1, <3>1 DEF Works, Methods
      <4>2. ~Works(r)'
            BY <3>1 DEF Works
      <4>3. goal = "new" /\ kind[r] \in WithPolicy /\ ~edited[r] => recPub'[r] = pub[r]
        <5>1. SUFFICES ASSUME goal = "new", kind[r] \in WithPolicy, ~edited[r]
                       PROVE  recPub'[r] = pub[r]
              OBVIOUS
        <5>2. pub[r] = wantPub[r]
              BY <1>1, <2>1, <4>1, <5>1 DEF Local, Public
        <5> QED
            BY <1>7, <1>8, <3>1, <4>1, <5>1, <5>2 DEF Works
      <4>4. record'[r] = "none" => ~recPub'[r]
            BY <1>6, <1>7, <1>8
      <4> QED
          BY <1>3, <2>1, <3>1, <4>2, <4>3, <4>4 DEF Public, Local
    <3> QED
        BY <3>2, <3>3, <3>4, <3>5 DEF Local
  <2> QED
      BY <2>2, <2>3
<1> QED
    BY <1>1, <1>4, <1>5, <1>9, <1>13, <1>14 DEF Moves, Kept, Others

\* Every step that is about one resource.
LEMMA StepMoves ==
    ASSUME NEW r \in Used, Sane,
           Step(r) \/ OperationEnds(r) \/ ReadFails(r) \/ Unseen(r) \/ PushUnseen(r) \/ Leave(r)
              \/ Fault(r) \/ Lost(r) \/ OperationFails(r) \/ Edit(r)
    PROVE  Moves(r)
BY ReadMoves, DiffMoves, ReturnMoves, LockMoves, RefuseBusyMoves, InsertMoves, AgainMoves,
   RewriteMoves, FetchMoves, PatchMoves, RemoveMoves, RefusalMoves, AwaitMoves, SettleMoves,
   MakeMoves, AmendMoves, PutMoves, DropMoves, PassMoves, PolicyMoves, OperationEndsMoves,
   ReadFailsMoves, UnseenMoves, PushUnseenMoves, LeaveMoves, FaultMoves, LostMoves,
   OperationFailsMoves, EditMoves DEF Step

\* The inductive invariant.
IInv == Sane /\ OneAtATime

\* Such a step keeps the invariant of all.
LEMMA MovesKeep ==
    ASSUME IInv, NEW r \in Used, Moves(r)
    PROVE  IInv'
<1>1. /\ UNCHANGED given /\ CountsTyped /\ CountsTyped' /\ faults' >= faults /\ Used' = Used
      BY DEF IInv, Sane, Moves, given, Used
<1>2. GivenTyped'
      BY <1>1 DEF IInv, Sane, GivenTyped, given
<1>3. \A q \in Used : Local(q)'
  <2>1. TAKE q \in Used
  <2>2. CASE q = r
        BY <2>2 DEF Moves
  <2>3. CASE q # r
        BY <1>1, <2>1, <2>3, Still DEF IInv, Sane, Moves, Others
  <2> QED
      BY <2>2, <2>3
<1>4. OneAtATime'
  <2>1. faults \in Nat /\ faults' \in Nat
        BY <1>1, DriversAssumption DEF CountsTyped, DriversAssumption
  <2> QED
      BY <1>1, <2>1 DEF IInv, OneAtATime, Moves
<1> QED
    BY <1>1, <1>2, <1>3, <1>4 DEF IInv, Sane, Moves

\* A round starts,
LEMMA StartRoundKeeps ==
    ASSUME IInv, StartRound
    PROVE  IInv'
<1>1. /\ UNCHANGED given /\ UNCHANGED cloud /\ UNCHANGED known /\ saved' = saved /\ todo' = todo
      /\ mutex' = mutex /\ edited' = edited /\ refused' = refused /\ faults' = faults
      /\ edits' = edits /\ \A r \in Used : m[r] = "idle"
      /\ m' = [r \in Used |-> IF reads THEN "read" ELSE "diff"]
      /\ result' = [r \in Used |-> "none"] /\ fp' = [r \in Used |-> "none"]
      BY DEF StartRound
<1>2. /\ kind' = kind /\ goal' = goal /\ reads' = reads /\ wantPub' = wantPub /\ Used' = Used
      /\ cfg' = cfg /\ pub' = pub /\ job' = job /\ record' = record /\ recPub' = recPub
      BY <1>1 DEF given, cloud, known, Used
<1>3. GivenTyped' /\ KnownTyped' /\ CountsTyped'
      BY <1>1, <1>2 DEF IInv, Sane, GivenTyped, KnownTyped, CountsTyped
<1>4. fp' \in [Used -> {"none", "fresh", "stale"}] /\ \A r \in Used : fp'[r] = "none"
      BY <1>1
<1>5. CloudTyped'
      BY <1>2, <1>4 DEF IInv, Sane, CloudTyped
<1>6. /\ m' \in [Used -> Methods \cup {"idle", "read", "diff", "unread", "end"}]
      /\ \A r \in Used : m'[r] = IF reads THEN "read" ELSE "diff"
      BY <1>1
<1>7. result' \in [Used -> {"none", "ok", "error"}]
      BY <1>1
<1>8. mutex = None
      BY <1>1 DEF IInv, Sane, WorkTyped, Methods
<1>9. WorkTyped'
      BY <1>1, <1>2, <1>6, <1>7, <1>8 DEF IInv, Sane, WorkTyped
<1>10. ASSUME NEW r \in Used PROVE Local(r)'
  <2>1. /\ Local(r) /\ m[r] = "idle" /\ m'[r] \in {"read", "diff"} /\ (reads => m'[r] = "read")
        BY <1>1, <1>6 DEF IInv, Sane
  <2>2. Course(r)' /\ Effective(r)' /\ Prints(r)'
        BY <1>2, <2>1 DEF Course, Effective, Prints, Works, Methods
  <2>3. Apart(r)'
        BY <1>1, <1>2, <2>1, AtRest DEF Apart, Methods
  <2>4. Operations(r)'
        BY <1>1, <1>2, <2>1 DEF Operations, Local
  <2>5. Public(r)'
        BY <1>1, <1>2, <2>1 DEF Public, Works, Local, Methods
  <2> QED
      BY <2>2, <2>3, <2>4, <2>5 DEF Local
<1>11. OneAtATime'
      BY <1>1 DEF IInv, OneAtATime
<1> QED
    BY <1>2, <1>3, <1>5, <1>9, <1>10, <1>11 DEF IInv, Sane

\* ends,
LEMMA EndRoundKeeps ==
    ASSUME IInv, EndRound
    PROVE  IInv'
<1>1. /\ UNCHANGED given /\ UNCHANGED cloud /\ UNCHANGED known /\ todo' = todo
      /\ mutex' = mutex /\ edited' = edited /\ refused' = refused /\ faults' = faults
      /\ edits' = edits /\ fp' = fp /\ result' = result
      /\ \A r \in Used : m[r] \in {"end", "unread"}
      /\ m' = [r \in Used |-> "idle"]
      /\ saved' = [r \in Used |-> [cfg |-> record[r], pub |-> recPub[r]]]
      BY DEF EndRound
<1>2. /\ kind' = kind /\ goal' = goal /\ reads' = reads /\ wantPub' = wantPub /\ Used' = Used
      /\ cfg' = cfg /\ pub' = pub /\ job' = job /\ record' = record /\ recPub' = recPub
      BY <1>1 DEF given, cloud, known, Used
<1>3. GivenTyped' /\ CloudTyped' /\ CountsTyped'
      BY <1>1, <1>2 DEF IInv, Sane, GivenTyped, CloudTyped, CountsTyped
<1>4. /\ saved' \in [Used -> [cfg : Configs, pub : BOOLEAN]]
      /\ \A r \in Used : saved'[r].cfg = record[r] /\ saved'[r].pub = recPub[r]
  <2>1. \A r \in Used : [cfg |-> record[r], pub |-> recPub[r]] \in [cfg : Configs, pub : BOOLEAN]
        BY DEF IInv, Sane, KnownTyped
  <2> QED
      BY <1>1, <2>1
<1>5. KnownTyped'
      BY <1>1, <1>2, <1>4 DEF IInv, Sane, KnownTyped
<1>6. /\ m' \in [Used -> Methods \cup {"idle", "read", "diff", "unread", "end"}]
      /\ \A r \in Used : m'[r] = "idle"
      BY <1>1
<1>7. mutex = None
      BY <1>1 DEF IInv, Sane, WorkTyped, Methods
<1>8. WorkTyped'
      BY <1>1, <1>2, <1>6, <1>7 DEF IInv, Sane, WorkTyped
<1>9. ASSUME NEW r \in Used PROVE Local(r)'
  <2>1. Local(r) /\ m[r] \in {"end", "unread"} /\ m'[r] = "idle"
        BY <1>1, <1>6 DEF IInv, Sane
  <2>2. Course(r)' /\ Effective(r)' /\ Prints(r)'
        BY <2>1 DEF Course, Effective, Prints, Works, Methods
  <2>3. Apart(r)'
        BY <1>1, <1>2, <2>1, AtRest DEF Apart, Methods
  <2>4. Operations(r)'
        BY <1>1, <1>2, <2>1 DEF Operations, Local
  <2>5. Public(r)'
        BY <1>1, <1>2, <1>4, <2>1 DEF Public, Works, Local, Methods
  <2> QED
      BY <2>2, <2>3, <2>4, <2>5 DEF Local
<1>10. OneAtATime'
      BY <1>1 DEF IInv, OneAtATime
<1> QED
    BY <1>2, <1>3, <1>5, <1>8, <1>9, <1>10 DEF IInv, Sane

\* or is lost with its process: what it had started goes on.
LEMMA CrashKeeps ==
    ASSUME IInv, Crash
    PROVE  IInv'
<1>1. /\ UNCHANGED given /\ UNCHANGED cloud /\ saved' = saved
      /\ refused' = refused /\ faults < MaxFaults /\ faults' = faults + 1
      /\ edits' = edits /\ mutex' = None
      /\ m' = [r \in Used |-> "idle"] /\ todo' = [r \in Used |-> << >>]
      /\ result' = [r \in Used |-> "none"] /\ fp' = [r \in Used |-> "none"]
      /\ record' = [r \in Used |-> saved[r].cfg] /\ recPub' = [r \in Used |-> saved[r].pub]
      /\ edited' = [r \in Used |-> TRUE]
      BY DEF Crash
<1>2. /\ kind' = kind /\ goal' = goal /\ reads' = reads /\ wantPub' = wantPub /\ Used' = Used
      /\ cfg' = cfg /\ pub' = pub /\ job' = job
      BY <1>1 DEF given, cloud, Used
<1>3. CountsTyped' /\ faults \in Nat /\ faults' > 0
  <2>1. CountsTyped' /\ faults \in Nat
        BY <1>1, CountsMove DEF IInv, Sane, CountsTyped
  <2> QED
      BY <1>1, <2>1
<1>4. GivenTyped'
      BY <1>1, <1>2 DEF IInv, Sane, GivenTyped
<1>5. fp' \in [Used -> {"none", "fresh", "stale"}] /\ \A r \in Used : fp'[r] = "none"
      BY <1>1
<1>6. CloudTyped'
      BY <1>2, <1>5 DEF IInv, Sane, CloudTyped
<1>7. /\ record' \in [Used -> Configs] /\ recPub' \in [Used -> BOOLEAN]
      /\ \A r \in Used : record'[r] = saved[r].cfg /\ recPub'[r] = saved[r].pub
  <2>1. \A r \in Used : saved[r].cfg \in Configs /\ saved[r].pub \in BOOLEAN
        BY DEF IInv, Sane, KnownTyped
  <2> QED
      BY <1>1, <2>1
<1>8. edited' \in [Used -> BOOLEAN] /\ \A r \in Used : edited'[r] = TRUE
      BY <1>1
<1>9. KnownTyped'
      BY <1>1, <1>2, <1>7, <1>8 DEF IInv, Sane, KnownTyped
<1>10. /\ m' \in [Used -> Methods \cup {"idle", "read", "diff", "unread", "end"}]
       /\ \A r \in Used : m'[r] = "idle"
       BY <1>1
<1>11. todo' \in [Used -> Seq(Steps)] /\ result' \in [Used -> {"none", "ok", "error"}]
       BY <1>1
<1>12. WorkTyped'
       BY <1>1, <1>2, <1>10, <1>11 DEF IInv, Sane, WorkTyped
<1>13. ASSUME NEW r \in Used PROVE Local(r)'
  <2>1. Local(r) /\ m'[r] = "idle" /\ edited'[r] = TRUE
        BY <1>8, <1>10 DEF IInv, Sane
  <2>2. Course(r)' /\ Effective(r)' /\ Prints(r)' /\ Apart(r)'
        BY <1>3, <2>1 DEF Course, Effective, Prints, Apart, Works, Methods
  <2>3. Operations(r)'
        BY <1>2, <1>3, <2>1 DEF Operations, Local
  <2>4. Public(r)'
        BY <1>1, <1>2, <1>7, <2>1 DEF Public, Local
  <2> QED
      BY <2>2, <2>3, <2>4 DEF Local
<1>14. OneAtATime'
      BY <1>3 DEF OneAtATime
<1> QED
    BY <1>2, <1>3, <1>4, <1>6, <1>9, <1>12, <1>13, <1>14 DEF IInv, Sane

----------------------------------------------------------------------------
(* The theorems *)

\* The invariant holds at first,
LEMMA InitIInv == Init => IInv
<1> SUFFICES ASSUME Init PROVE IInv
    OBVIOUS
<1>1. /\ kind \in Assignments /\ goal \in {"new", "none"} /\ reads \in BOOLEAN
      /\ wantPub \in [Used -> BOOLEAN] /\ (\A r \in Used : wantPub[r] => kind[r] \in WithPolicy)
      /\ cfg \in [Used -> {"none", "old", "new"}]
      /\ \A r \in Used : cfg[r] # IF kind[r] = "APIService" THEN "old" ELSE "new"
      /\ pub = [r \in Used |-> FALSE] /\ job = [r \in Used |-> "none"]
      /\ record = cfg /\ recPub = pub
      /\ saved = [r \in Used |-> [cfg |-> cfg[r], pub |-> FALSE]]
      /\ m = [r \in Used |-> "idle"] /\ todo = [r \in Used |-> << >>]
      /\ result = [r \in Used |-> "none"] /\ fp = [r \in Used |-> "none"]
      /\ mutex = None /\ edited = [r \in Used |-> FALSE] /\ refused = FALSE
      /\ faults = 0 /\ edits = 0
      BY DEF Init
<1>2. GivenTyped
      BY <1>1 DEF GivenTyped
<1>3. cfg \in [Used -> Configs]
      BY <1>1 DEF Configs
<1>4. CloudTyped
      BY <1>1, <1>3 DEF CloudTyped
<1>5. \A r \in Used : [cfg |-> cfg[r], pub |-> FALSE] \in [cfg : Configs, pub : BOOLEAN]
      BY <1>3
<1>6. /\ saved \in [Used -> [cfg : Configs, pub : BOOLEAN]]
      /\ \A r \in Used : saved[r].pub = FALSE
      BY <1>1, <1>5
<1>7. KnownTyped
      BY <1>1, <1>3, <1>6 DEF KnownTyped
<1>8. WorkTyped
      BY <1>1 DEF WorkTyped
<1>9. CountsTyped
  <2>1. refused = FALSE /\ faults = 0 /\ edits = 0
        BY <1>1
  <2>2. MaxFaults \in Nat /\ MaxEdits \in Nat
        BY DriversAssumption DEF DriversAssumption
  <2>3. refused \in BOOLEAN
        BY <2>1
  <2>4. faults \in 0..MaxFaults /\ edits \in 0..MaxEdits
        BY <2>1, <2>2
  <2> QED
      BY <2>3, <2>4 DEF CountsTyped
<1>10. ASSUME NEW r \in Used PROVE Local(r)
  <2>1. /\ m[r] = "idle" /\ job[r] = "none" /\ pub[r] = FALSE /\ recPub[r] = FALSE
        /\ cfg[r] \in {"none", "old", "new"} /\ (kind[r] = "APIService" => cfg[r] # "old")
        /\ saved[r].pub = FALSE
        BY <1>1, <1>6
  <2>2. Course(r) /\ Effective(r) /\ Prints(r)
        BY <2>1 DEF Course, Effective, Prints, Works, Methods
  <2>3. Apart(r) /\ Operations(r)
        BY <2>1 DEF Apart, Operations, Running, Methods
  <2>4. Public(r)
        BY <1>1, <2>1 DEF Public, Works
  <2> QED
      BY <2>2, <2>3, <2>4 DEF Local
<1> QED
    BY <1>1, <1>2, <1>4, <1>7, <1>8, <1>9, <1>10 DEF IInv, Sane, OneAtATime

\* and every step keeps it.
LEMMA NextIInv == IInv /\ [Next]_vars => IInv'
<1> SUFFICES ASSUME IInv, [Next]_vars PROVE IInv'
    OBVIOUS
<1>1. CASE UNCHANGED vars
  <2>1. /\ UNCHANGED given /\ cfg' = cfg /\ pub' = pub /\ job' = job /\ record' = record
        /\ recPub' = recPub /\ saved' = saved /\ m' = m /\ todo' = todo /\ result' = result
        /\ fp' = fp /\ mutex' = mutex /\ edited' = edited /\ refused' = refused
        /\ faults' = faults /\ edits' = edits
        BY <1>1 DEF vars, cloud, known
  <2>2. /\ kind' = kind /\ goal' = goal /\ reads' = reads /\ wantPub' = wantPub /\ Used' = Used
        BY <2>1 DEF given, Used
  <2>3. GivenTyped' /\ CloudTyped' /\ KnownTyped' /\ WorkTyped' /\ CountsTyped'
        BY <2>1, <2>2 DEF IInv, Sane, GivenTyped, CloudTyped, KnownTyped, WorkTyped, CountsTyped
  <2>4. faults' >= faults
        BY <2>1, DriversAssumption DEF IInv, Sane, CountsTyped, DriversAssumption
  <2>5. \A q \in Used : Kept(q)
        BY <2>1 DEF Kept, CloudKept, KnownKept, WorkKept
  <2>6. \A q \in Used : Local(q)'
        BY <2>1, <2>3, <2>4, <2>5, Still DEF IInv, Sane
  <2>7. OneAtATime'
        BY <2>1 DEF IInv, OneAtATime
  <2> QED
      BY <2>2, <2>3, <2>6, <2>7 DEF IInv, Sane
<1>2. CASE StartRound
      BY <1>2, StartRoundKeeps
<1>3. CASE EndRound
      BY <1>3, EndRoundKeeps
<1>4. CASE Crash
      BY <1>4, CrashKeeps
<1>5. ASSUME NEW r \in Used,
             Step(r) \/ OperationEnds(r) \/ ReadFails(r) \/ Unseen(r) \/ PushUnseen(r) \/ Leave(r)
                \/ Fault(r) \/ Lost(r) \/ OperationFails(r) \/ Edit(r)
      PROVE  IInv'
      BY <1>5, StepMoves, MovesKeep DEF IInv
<1> QED
    BY <1>1, <1>2, <1>3, <1>4, <1>5 DEF Next

\* The drivers and the registry stay in the invariant whatever fails, is lost
\* or is changed by somebody else.
THEOREM Inductive == Spec => []IInv
BY InitIInv, NextIInv, PTL DEF Spec

\* Every variable keeps its type, and the mutex of the SQL instance is held by
\* a method that runs: Lock and the deferred Unlock are paired on every path.
THEOREM TypeCorrect == Spec => []TypeOK
<1>1. IInv => TypeOK
      BY TypeParts DEF IInv, Sane
<1> QED
    BY <1>1, Inductive, PTL

\* The mutex keeps the operations on an SQL instance apart.
THEOREM OneByOne == Spec => []OneAtATime
<1>1. IInv => OneAtATime
      BY DEF IInv
<1> QED
    BY <1>1, Inductive, PTL

----------------------------------------------------------------------------
(* The properties of a step *)

\* What a step of another does not change.
LEMMA OthersKept ==
    ASSUME IInv, NEW q \in Used, NEW r \in Used, q # r,
           Step(q) \/ OperationEnds(q) \/ ReadFails(q) \/ Unseen(q) \/ PushUnseen(q) \/ Leave(q)
              \/ Fault(q) \/ Lost(q) \/ OperationFails(q) \/ Edit(q)
    PROVE  job'[r] = job[r] /\ result'[r] = result[r]
<1>1. Moves(q)
      BY StepMoves DEF IInv
<1> QED
    BY <1>1 DEF Moves, Others, Kept, CloudKept, WorkKept

\* Only Patch starts a rewrite from "patch".
LEMMA Patching ==
    ASSUME IInv, NEW r \in Used, At(r, "patch"), job[r] # "rewrite", job'[r] = "rewrite",
           Step(r) \/ OperationEnds(r) \/ ReadFails(r) \/ Unseen(r) \/ PushUnseen(r) \/ Leave(r)
              \/ Fault(r) \/ Lost(r) \/ OperationFails(r) \/ Edit(r)
    PROVE  Patch(r)
<1>1. m[r] \in Methods /\ todo[r] # << >> /\ Head(todo[r]) = "patch" /\ job' # job
      BY DEF At
<1>2. job \in [Used -> {"none", "failed", "insert", "rewrite", "remove"}]
      BY DEF IInv, Sane, CloudTyped
<1>3. ~(Read(r) \/ Diff(r) \/ Return(r) \/ Lock(r) \/ RefuseBusy(r))
      BY <1>1 DEF Read, Diff, Return, Lock, RefuseBusy, cloud
<1>4. ~(Insert(r) \/ Again(r) \/ Rewrite(r) \/ Fetch(r) \/ Remove(r))
      BY <1>1 DEF Insert, Again, Rewrite, Fetch, Remove, Operation, At
<1>5. ~(Exists(r) \/ PatchStale(r) \/ Absent(r) \/ PolicyAbsent(r))
      BY <1>1 DEF Exists, PatchStale, Absent, PolicyAbsent, Refuse, cloud
<1>6. ~(Await(r) \/ Settle(r) \/ Make(r) \/ Amend(r) \/ Put(r) \/ Drop(r))
      BY <1>1 DEF Await, Settle, Make, Amend, Put, Drop, At
<1>7. ~(Pass(r) \/ Policy(r))
      BY <1>1 DEF Pass, Policy, cloud
<1>8. ~(ReadFails(r) \/ Unseen(r) \/ PushUnseen(r) \/ Leave(r) \/ Fault(r) \/ Lost(r) \/ Edit(r))
      BY <1>1 DEF ReadFails, Unseen, PushUnseen, Leave, Fault, Lost, Edit, At, cloud
<1>9. ~(OperationEnds(r) \/ OperationFails(r))
      BY <1>2 DEF OperationEnds, OperationFails
<1> QED
    BY <1>3, <1>4, <1>5, <1>6, <1>7, <1>8, <1>9 DEF Step

\* With Read, a driver that sends a fingerprint never overwrites what it has
\* not read: an Update that starts its operation sends the fingerprint of the
\* configuration as it is.
THEOREM NothingOverwritten == Spec => NoBlindOverwrite
<1> DEFINE P == \A r \in Used :
                   reads /\ kind[r] \in Fingerprinted /\ edited[r]
                      => ~(At(r, "patch") /\ job[r] # "rewrite" /\ job'[r] = "rewrite")
<1>1. ASSUME IInv, [Next]_vars PROVE P
  <2>1. SUFFICES ASSUME NEW r \in Used, reads, kind[r] \in Fingerprinted, edited[r],
                        At(r, "patch"), job[r] # "rewrite", job'[r] = "rewrite"
                 PROVE  FALSE
        OBVIOUS
  <2>2. ~(UNCHANGED vars \/ StartRound \/ EndRound \/ Crash)
        BY <2>1 DEF vars, StartRound, EndRound, Crash, cloud
  <2>3. PICK q \in Used :
             Step(q) \/ OperationEnds(q) \/ ReadFails(q) \/ Unseen(q) \/ PushUnseen(q) \/ Leave(q)
                \/ Fault(q) \/ Lost(q) \/ OperationFails(q) \/ Edit(q)
        BY <1>1, <2>2 DEF Next
  <2>4. q = r
        BY <1>1, <2>1, <2>3, OthersKept
  <2>5. Patch(r)
        BY <1>1, <2>1, <2>3, <2>4, Patching
  <2>6. fp[r] = "fresh"
        BY <2>5 DEF Patch, Held
  <2>7. m[r] = "update"
    <3>1. m[r] \in Methods /\ todo[r] # << >> /\ Head(todo[r]) = "patch"
          BY <2>1 DEF At
    <3>2. Fits(kind[r], m[r], Head(todo[r]), Following(todo[r]))
          BY <1>1, <3>1, Underway DEF IInv, Sane
    <3> QED
        BY <3>1, <3>2 DEF Fits
  <2> QED
      BY <1>1, <2>1, <2>6, <2>7 DEF IInv, Sane, Local, Prints
<1> HIDE DEF P
<1>2. NoBlindOverwrite <=> [][P]_vars
      BY PTL DEF NoBlindOverwrite, P
<1> QED
    BY <1>1, <1>2, Inductive, PTL DEF Spec

\* Only Return answers nil.
LEMMA Answering ==
    ASSUME IInv, NEW r \in Used, result'[r] = "ok", result[r] # "ok",
           Step(r) \/ OperationEnds(r) \/ ReadFails(r) \/ Unseen(r) \/ PushUnseen(r) \/ Leave(r)
              \/ Fault(r) \/ Lost(r) \/ OperationFails(r) \/ Edit(r)
    PROVE  Return(r)
<1>1. result' # result /\ ~Advance(r)
      BY DEF Advance
<1>2. ~Fail(r)
      BY DEF Fail, IInv, Sane, WorkTyped
<1>3. ~(Read(r) \/ Diff(r) \/ Lock(r) \/ RefuseBusy(r))
      BY <1>1, <1>2 DEF Read, Diff, Lock, RefuseBusy
<1>4. ~(Insert(r) \/ Again(r) \/ Rewrite(r) \/ Fetch(r) \/ Patch(r) \/ Remove(r))
      BY <1>1 DEF Insert, Again, Rewrite, Fetch, Patch, Remove
<1>5. ~(Exists(r) \/ PatchStale(r) \/ Absent(r) \/ PolicyAbsent(r))
      BY <1>2 DEF Exists, PatchStale, Absent, PolicyAbsent, Refuse
<1>6. ~(Await(r) \/ Settle(r) \/ Make(r) \/ Amend(r) \/ Put(r) \/ Drop(r))
      BY <1>1, <1>2 DEF Await, Settle, Make, Amend, Put, Drop
<1>7. ~(Pass(r) \/ Policy(r))
      BY <1>1 DEF Pass, Policy
<1>8. ~(ReadFails(r) \/ Unseen(r) \/ PushUnseen(r) \/ Leave(r) \/ Fault(r) \/ Lost(r) \/ Edit(r))
      BY <1>1, <1>2 DEF ReadFails, Unseen, PushUnseen, Leave, Fault, Lost, Edit
<1>9. ~(OperationEnds(r) \/ OperationFails(r))
      BY <1>1 DEF OperationEnds, OperationFails
<1> QED
    BY <1>3, <1>4, <1>5, <1>6, <1>7, <1>8, <1>9 DEF Step

\* What Return answers nil for is done.
LEMMA ReturnsDone ==
    ASSUME IInv, NEW r \in Used, Return(r), result'[r] = "ok", result[r] # "ok",
           ~edited[r], ~Overclaims(r)
    PROVE  Reached(r) /\ Over(r)
<1>1. /\ m[r] \in Methods /\ todo[r] = << >> /\ (m[r] # "delete" \/ goal = "none")
      /\ goal \in {"new", "none"}
      BY DEF Return, IInv, Sane, WorkTyped, GivenTyped
<1>2. Local(r) /\ wantPub[r] \in BOOLEAN /\ pub[r] \in BOOLEAN
      BY DEF IInv, Sane, GivenTyped, CloudTyped
<1>3. ~Acts(todo[r])
      BY <1>1 DEF Acts
<1>4. goal = "new" <=> Works(r)
      BY <1>1, <1>2 DEF Works, Methods, Local, Course
<1>5. CASE goal = "new"
  <2>1. job[r] = "none" /\ cfg[r] = "new"
        BY <1>1, <1>2, <1>3, <1>4, <1>5 DEF Local, Effective, NextIn
  <2>2. pub[r] = wantPub[r]
        BY <1>1, <1>2, <1>4, <1>5 DEF Local, Public
  <2> QED
      BY <1>5, <2>1, <2>2 DEF Reached, Over
<1>6. CASE goal = "none"
  <2>1. m[r] = "delete"
        BY <1>1, <1>2, <1>6 DEF Local, Course
  <2>2. job[r] \in {"none", "failed"} /\ cfg[r] = "none"
        BY <1>1, <1>2, <1>3, <1>6, <2>1 DEF Local, Effective, NextIn
  <2> QED
      BY <1>6, <2>2 DEF Reached, Over
<1> QED
    BY <1>1, <1>5, <1>6

\* Create, Update and Delete answer nil once the resource is as it should be,
\* its policy too, and no operation of theirs is under way.
THEOREM OkIsDone == Spec => OkMeansDone
<1> DEFINE P == \A r \in Used :
                   result'[r] = "ok" /\ result[r] # "ok" /\ ~edited[r] /\ ~Overclaims(r)
                      => Reached(r) /\ Over(r)
<1>1. ASSUME IInv, [Next]_vars PROVE P
  <2>1. SUFFICES ASSUME NEW r \in Used, result'[r] = "ok", result[r] # "ok", ~edited[r],
                        ~Overclaims(r)
                 PROVE  Reached(r) /\ Over(r)
        OBVIOUS
  <2>2. ~(UNCHANGED vars \/ StartRound \/ EndRound \/ Crash)
        BY <2>1 DEF vars, StartRound, EndRound, Crash
  <2>3. PICK q \in Used :
             Step(q) \/ OperationEnds(q) \/ ReadFails(q) \/ Unseen(q) \/ PushUnseen(q) \/ Leave(q)
                \/ Fault(q) \/ Lost(q) \/ OperationFails(q) \/ Edit(q)
        BY <1>1, <2>2 DEF Next
  <2>4. q = r
        BY <1>1, <2>1, <2>3, OthersKept
  <2>5. Return(r)
        BY <1>1, <2>1, <2>3, <2>4, Answering
  <2> QED
      BY <1>1, <2>1, <2>5, ReturnsDone
<1> HIDE DEF P
<1>2. OkMeansDone <=> [][P]_vars
      BY PTL DEF OkMeansDone, P
<1> QED
    BY <1>1, <1>2, Inductive, PTL DEF Spec
=============================================================================
