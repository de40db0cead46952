----------------------------- MODULE MCStartup -----------------------------
(* Values for the constants that a configuration file cannot write. *)
EXTENDS StartupProps

\* Two candidates of each kind are enough for one to be preferred.
MCInstallRoots     == <<"/opt/replay/install", "/var/lib/replay/install">>
MCReplayCandidates == <<"replay_2gb.bin", "recorded_requests.bin">>
MCCACandidates     == <<"var/identity.ca", "var/ca.crt">>

Plain == [target |-> "host:port", file |-> "flag", cert |-> "", key |-> "", ca |-> "",
          tls |-> TRUE, qps |-> 2, connections |-> 4, workers |-> 0, queue |-> 0]

\* All the paths with the default numbers, and all the numbers with a file.
MCCommandLines ==
  {[Plain EXCEPT !.target = target, !.file = f, !.cert = cert, !.key = key, !.ca = ca, !.tls = tls] :
     target \in {"", "host:port"}, f, cert, key, ca \in {"", "flag"}, tls \in BOOLEAN}
  \cup
  {[Plain EXCEPT !.qps = q, !.connections = c, !.workers = w, !.queue = n] :
     q \in {0, 2}, c \in {0, 4, 6}, w \in {-1, 0, 3}, n \in {-1, 0, 5}}

Rec(name, methodLen, payloadLen) ==
  [name |-> name, methodLen |-> methodLen, payloadLen |-> payloadLen, cut |-> FALSE]

\* With the limits of the configuration: two of the largest are beyond the
\* cap, and so is the largest with one that is skipped and a small one.
MCRecords == {Rec("small", 1, 2), Rec("large", 2, 4), Rec("empty", 2, 0),
              Rec("long method", 3, 1), Rec("too long", 4, 1), Rec("no method", 0, 1),
              Rec("too big", 1, 5)}
CutRecord == [Rec("cut", 1, 2) EXCEPT !.cut = TRUE]

MCFiles == BoundedSeq(MCRecords, 2) \cup {Append(f, CutRecord) : f \in BoundedSeq(MCRecords, 1)}
           \cup {<<Rec("empty", 2, 0), Rec("large", 2, 4), Rec("small", 1, 2)>>}

B(size, window, period, mode) == [Size |-> size, Window |-> window, Period |-> period, Mode |-> mode]

\* Off, invalid in each way, exactly the rate, and more than the rate.
MCBursts == {B(0, 0, 0, "absorbing"), B(-1, 1, 4, "additive"), B(2, 0, 4, "additive"),
             B(2, 1, 0, "absorbing"), B(2, 1, 4, "absorbing"), B(3, 1, 4, "absorbing"),
             B(3, 1, 4, "additive")}
=============================================================================
