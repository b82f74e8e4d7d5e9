--------------------------- MODULE DriverScripts ---------------------------
(***************************************************************************)
(* The resource drivers of gcp/*.go: what Create, Update and Delete of     *)
(* each do to the cloud, call by call.  A driver is a record of scripts; a *)
(* script is the sequence of the calls that change or wait for something,  *)
(* and ends at the first that fails.                                       *)
(*                                                                         *)
(* Read gets the resource by its name, or by the id the service gave it    *)
(* ("getById"); "hold" also keeps the fingerprint that came with it.       *)
(*                                                                         *)
(* insert, rewrite and remove start an operation; make, put, amend and     *)
(* drop are done when answered; patch is a rewrite with the fingerprint    *)
(* held, which fetch reads unless Read did.                                *)
(***************************************************************************)
EXTENDS Naturals, Sequences

Steps == {"insert", "make", "put", "rewrite", "fetch", "patch", "amend", "remove",
          "drop", "lock", "await", "settle", "ready", "gone", "get", "empty",
          "repository", "dropOld", "dropVersion", "policy", "policyIfPublic",
          "policyIfChanged", "unimplemented"}

Unimplemented == <<"unimplemented">>

Compute == [read |-> "hold",
            create |-> <<"insert", "await">>,
            update |-> <<"fetch", "patch", "await">>,
            delete |-> <<"remove", "await">>]
Fixed == [Compute EXCEPT !.read = "get", !.update = Unimplemented]

AddressDriver == [Fixed EXCEPT !.create = @ \o <<"get">>]
ServerlessNEGDriver == Fixed
ManagedSSLDriver == [Fixed EXCEPT !.create = @ \o <<"get">>]
SelfManagedSSLDriver == Fixed
BackendServiceDriver == Compute
URLMapDriver == Compute
TargetHTTPProxyDriver == Compute
TargetHTTPSProxyDriver == Compute
ForwardingRuleDriver == Compute

CloudSQLDriver ==
    [read |-> "hold",
     create |-> <<"insert", "await", "get">>,
     update |-> <<"lock", "fetch", "patch", "await", "get">>,
     delete |-> <<"remove", "await">>]
CloudSQLUserUnlocked ==
    [read |-> "get",
     create |-> <<"insert", "await">>, update |-> <<"rewrite", "await">>,
     delete |-> <<"remove", "await">>]
CloudSQLUserDriver ==
    [read |-> "get",
     create |-> <<"lock", "insert", "await">>,
     update |-> <<"lock", "rewrite", "await">>,
     delete |-> <<"lock", "remove", "await">>]
CloudSQLDatabaseDriver == [CloudSQLUserDriver EXCEPT !.update = Unimplemented]

CloudRunDriver ==
    [read |-> "get",
     create |-> <<"make", "ready", "policy">>,
     update |-> <<"amend", "ready", "policyIfChanged">>,
     delete |-> <<"remove", "gone">>]
CloudFunctionDriver ==
    [read |-> "get",
     create |-> <<"insert", "settle", "get", "policyIfPublic">>,
     update |-> <<"rewrite", "settle", "get", "policy">>,
     delete |-> <<"remove", "await">>]

BucketDriver ==
    [read |-> "get",
     create |-> <<"make", "policyIfPublic">>,
     update |-> <<"amend", "policyIfChanged">>,
     delete |-> <<"empty", "drop">>]
BucketObjectDriver ==
    [read |-> "get",
     create |-> <<"put">>, update |-> <<"put">>, delete |-> <<"drop">>]
ImageDriver ==
    [read |-> "get",
     create |-> <<"repository", "put">>,
     update |-> <<"repository", "put", "dropOld">>,
     delete |-> <<"drop", "dropVersion">>]

Plain == [read |-> "get",
          create |-> <<"make">>, update |-> <<"amend">>, delete |-> <<"drop">>]
Monitored == [Plain EXCEPT !.read = "getById"]
CloudSchedulerJobDriver == Plain
NotificationChannelDriver == Monitored
UptimeCheckConfigDriver == Monitored
UptimeAlertPolicyDriver == Monitored

APIServiceDriver ==
    [read |-> "get",
     create |-> <<"insert", "await">>, update |-> Unimplemented, delete |-> << >>]

Driver ==
    [Address |-> AddressDriver, ServerlessNEG |-> ServerlessNEGDriver,
     ManagedSSL |-> ManagedSSLDriver, SelfManagedSSL |-> SelfManagedSSLDriver,
     BackendService |-> BackendServiceDriver, URLMap |-> URLMapDriver,
     TargetHTTPProxy |-> TargetHTTPProxyDriver,
     TargetHTTPSProxy |-> TargetHTTPSProxyDriver,
     ForwardingRule |-> ForwardingRuleDriver, CloudSQL |-> CloudSQLDriver,
     CloudSQLUser |-> CloudSQLUserDriver,
     CloudSQLDatabase |-> CloudSQLDatabaseDriver,
     CloudRun |-> CloudRunDriver, CloudFunction |-> CloudFunctionDriver,
     Bucket |-> BucketDriver, RuledBucket |-> BucketDriver,
     BucketObject |-> BucketObjectDriver, Image |-> ImageDriver,
     CloudSchedulerJob |-> CloudSchedulerJobDriver,
     NotificationChannel |-> NotificationChannelDriver,
     UptimeCheckConfig |-> UptimeCheckConfigDriver,
     UptimeAlertPolicy |-> UptimeAlertPolicyDriver,
     APIService |-> APIServiceDriver]

Kinds == DOMAIN Driver
Replaced == {k \in Kinds : Driver[k].update = Unimplemented}
Fingerprinted == {k \in Kinds : Driver[k].read = "hold"}
OnInstance == {"CloudSQL", "CloudSQLUser", "CloudSQLDatabase"}
WithPolicy == {"CloudRun", "CloudFunction", "Bucket", "RuledBucket"}
\* Monitoring gives its objects their ids.
ServerNamed == {k \in Kinds : Driver[k].read = "getById"}
\* Their waits do not look at the Error of an operation that is done at once.
EarlyDone == {"APIService", "CloudFunction"}
\* Read leaves a field of theirs as the record has it: certificates and keys,
\* a password, a header, rules, a backend, environment variables...
PartlyRead == {"ServerlessNEG", "ManagedSSL", "SelfManagedSSL", "BackendService",
               "URLMap", "TargetHTTPSProxy", "CloudSQLUser", "CloudRun",
               "RuledBucket", "BucketObject"}
=============================================================================
