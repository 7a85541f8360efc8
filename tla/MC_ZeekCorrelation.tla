-------------------------- MODULE MC_ZeekCorrelation --------------------------
\* A client, a scanned server, the scanner and an external address; one service
\* in every state; aggregates on both sides of each threshold.  The sensor is
\* never unusable: cli._main correlates only when conn.log could be read.
EXTENDS ZeekCorrelation, TLC

CONSTANTS client, server, scanner, outside

MC_Addresses == {client, server, scanner, outside}
MC_External == {outside}
MC_Protocols == {"tcp", "icmp", "other"}
MC_Ports == {1}

K(src, dst, proto) == [src |-> src, dst |-> dst, proto |-> proto, port |-> 1]
Direct == K(client, server, "tcp")
Probe == K(scanner, server, "tcp")
Away == K(client, outside, "tcp")

Default == [perspectives |-> {"inbound", "outbound"}, externalRules |-> FALSE,
            attemptedFlows |-> FALSE, excludeScanner |-> TRUE, minimum |-> 1, ratio |-> 0]
MC_Settings ==
    {Default, [Default EXCEPT !.perspectives = {"inbound"}, !.externalRules = TRUE],
     [Default EXCEPT !.perspectives = {}, !.minimum = 0],
     [Default EXCEPT !.attemptedFlows = TRUE, !.minimum = 2],
     [Default EXCEPT !.excludeScanner = FALSE, !.ratio = 50, !.attemptedFlows = TRUE]}

MC_Sensors == {[status |-> "unknown", overLoss |-> FALSE],
               [status |-> "degraded", overLoss |-> FALSE],
               [status |-> "degraded", overLoss |-> TRUE]}

MC_Scans ==
    {[hosts |-> {}, ports |-> <<>>]} \union
    {[hosts |-> {server}, ports |-> ServiceOf(Direct) :> state] :
        state \in {"open", "closed|filtered", "closed"}}

A(key, ok, other, flaws, ignored) ==
    [key |-> key, ok |-> ok, other |-> other, flaws |-> flaws, ignored |-> ignored]
MC_AggregatePool ==
    {A(Direct, 2, 0, {}, FALSE), A(Direct, 1, 2, {"partial"}, FALSE),
     A(Direct, 0, 1, {}, FALSE), A(Direct, 2, 0, {}, TRUE),
     A(Probe, 2, 0, {}, FALSE), A(Probe, 0, 1, {}, FALSE),
     A(Away, 2, 0, {"missed"}, FALSE),
     A(K(client, server, "icmp"), 0, 1, {"partial"}, FALSE),
     A(K(client, server, "other"), 0, 1, {"ambiguous"}, FALSE)}

F(key, slot, evidence, review, confidence) ==
    [key |-> key, slot |-> slot, evidence |-> evidence, review |-> review, status |-> "",
     sources |-> {}, seen |-> "", confidence |-> confidence]
MC_FlowPool ==
    {F(Probe, "inbound", "observed", FALSE, 90), F(Probe, "inbound", "observed", TRUE, 75),
     F(Probe, "inbound", "manual", TRUE, 25), F(Probe, "outbound", "user-defined", FALSE, 80),
     F(Direct, "inbound", "user-defined", FALSE, 80), F(Direct, "inbound", "user-defined", TRUE, 80),
     F(Direct, "outbound", "inferred", FALSE, 50), F(Away, "outbound", "user-defined", FALSE, 80)}
===============================================================================
