------------------------------- MODULE MCArrival -------------------------------
(***************************************************************************)
(* The broker on its way to every device, from a state it reaches when a   *)
(* game begins: the Windows save is mapped and its first file captured,    *)
(* and the Thor is not mapped yet.  Starting there leaves room for a       *)
(* second head with bytes of its own, which has to replace the first one   *)
(* on a device that holds it.                                              *)
(***************************************************************************)
EXTENDS Broker

CONSTANT FirstBattery  \* the first save

ASSUME FirstBatteryAssumption == FirstBattery \in Batteries

FirstSave == [battery |-> FirstBattery, rtc |-> NoRtc]

ArrivalInit ==
    /\ revisions = <<[parent |-> NoRevision, content |-> FirstSave, source |-> "windows",
                      kind |-> "captured", from |-> NoRevision, state |-> "head"]>>
    /\ \E path \in Paths :
          bindings = {[endpoint |-> "windows", path |-> path,
                       profile |-> ProfileOf("windows"), lastDeployed |-> 1]}
    /\ current = 1
    /\ status = "healthy"
    /\ conflicts = {}
    /\ operations = << >>
    /\ requests = [k \in Keys |-> NoRevision]
    /\ captures = {}
    /\ propagation \in (IF Switchable THEN BOOLEAN ELSE {TRUE})
    /\ enabling = FALSE
    /\ timers = [e \in Endpoints |-> "off"]
    /\ inputs = [w \in Workers |-> Idle]
    /\ deliveries = {}
    /\ complete = [e \in Endpoints |-> FALSE]
    /\ hub = [e \in Endpoints |-> IF e = "windows" THEN FirstSave ELSE NoFile]
    /\ artifact = [e \in Endpoints |-> NoFile]
    /\ names = [e \in Endpoints |-> 0]
    /\ device = hub
    /\ edited = [e \in Endpoints |-> FALSE]
    /\ index = [e \in Endpoints |-> "sent"]
    /\ plays = 0
    /\ faults = 0

ArrivalSpec == ArrivalInit /\ [][BrokerNext]_brokerVars /\ Fairness
=============================================================================
