---------------------------- MODULE MCConnections ----------------------------
EXTENDS Connections

CONSTANTS c1, c2, ip1, ip2

\* Two connections that compete for the caps; one address after the other
\* against the throttle as time passes; and one connection in detail.
Crowd == [conns |-> {c1, c2}, ips |-> {ip1, ip2}, tls |-> {FALSE}, inputs |-> 1,
          kinds |-> {"line"}, hangups |-> {}, outbound |-> 0, stall |-> FALSE, clock |-> FALSE]
Burst == [conns |-> {c1}, ips |-> {ip1, ip2}, tls |-> {TRUE}, inputs |-> 0,
          kinds |-> {}, hangups |-> {"gone"}, outbound |-> 0, stall |-> FALSE, clock |-> TRUE]
Session == [conns |-> {c1}, ips |-> {ip1}, tls |-> {FALSE}, inputs |-> 2,
            kinds |-> {"line", "size", "ctl"}, hangups |-> {"half", "gone"}, outbound |-> 2,
            stall |-> TRUE, clock |-> FALSE]

MCScenarios == {Crowd, Burst, Session}
=============================================================================
