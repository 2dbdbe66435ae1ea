---------------------------- MODULE SslContexts ----------------------------
(***************************************************************************)
(* SSL_Initor of zltoolkit: the certificates that were loaded, each as a   *)
(* context, and the one that a handshake is given.  Names are sequences of *)
(* characters, without their case.  A context is the number of the load    *)
(* that made it; 0 is none.                                                *)
(***************************************************************************)
EXTENDS Integers, Sequences, FiniteSets

CONSTANTS CertNames, \* of certificates, <<>> for one without a name
          Hosts,     \* that clients ask for, <<>> for none
          MaxLoads   \* bound

VARIABLES emptyCtx, ctxs, wildcards, defaultVhost, \* of each mode: TRUE is the server's
          loads, \* name and mode of every context that was made
          found  \* what a handshake was given last

sslVars == <<emptyCtx, ctxs, wildcards, defaultVhost, loads, found>>

Star == 42  Dot == 46
Wild(name) == Len(name) >= 2 /\ name[1] = Star /\ name[2] = Dot

NotAsked == [host |-> <<>>, server |-> FALSE, ctx |-> -1]

\* The constructor makes a context without a name for each mode.
Init == /\ loads = <<[name |-> <<>>, server |-> FALSE], [name |-> <<>>, server |-> TRUE]>>
        /\ emptyCtx = [m \in BOOLEAN |-> IF m THEN 2 ELSE 1]
        /\ ctxs = [m \in BOOLEAN |-> <<>>] /\ wildcards = [m \in BOOLEAN |-> <<>>]
        /\ defaultVhost = [m \in BOOLEAN |-> <<>>]
        /\ found = NotAsked

\* map[key] = value
Put(map, key, value) == [k \in DOMAIN map \cup {key} |-> IF k = key THEN value ELSE map[k]]

SetContext(vhost, ctx, server, isDefault) ==
    IF vhost = <<>>
    THEN /\ emptyCtx' = [emptyCtx EXCEPT ![server] = ctx]
         /\ UNCHANGED <<ctxs, wildcards, defaultVhost>>
    ELSE /\ ctxs' = [ctxs EXCEPT ![server] = Put(@, vhost, ctx)]
         /\ defaultVhost' = IF isDefault THEN [defaultVhost EXCEPT ![server] = vhost]
                            ELSE defaultVhost
         /\ wildcards' = IF Wild(vhost)
                         THEN [wildcards EXCEPT ![server] = Put(@, Tail(vhost), ctx)]
                         ELSE wildcards
         /\ UNCHANGED emptyCtx

\* loadCertificate: a file that is no good leaves all as it was.
Load(vhost, server, isDefault) ==
    /\ Len(loads) < MaxLoads + 2
    /\ loads' = Append(loads, [name |-> vhost, server |-> server])
    /\ SetContext(vhost, Len(loads) + 1, server, isDefault)
    /\ found' = NotAsked

-----------------------------------------------------------------------------
Occurs(part, text, i) == i + Len(part) - 1 <= Len(text) /\ SubSeq(text, i, i + Len(part) - 1) = part

\* The first occurrence has to be the one at the end.
EndsWith(host, suffix) ==
    \E i \in 1..Len(host) : /\ Occurs(suffix, host, i) /\ i + Len(suffix) - 1 = Len(host)
                            /\ \A j \in 1..(i - 1) : ~Occurs(suffix, host, j)

Less(a, b) == \E i \in 1..Len(b) : /\ Len(a) >= i - 1 /\ SubSeq(a, 1, i - 1) = SubSeq(b, 1, i - 1)
                                   /\ Len(a) < i \/ a[i] < b[i]

\* The first one in the order of the map, not the longest.
GetSSLCtxWildcards(vhost, server) ==
    LET fit == {s \in DOMAIN wildcards[server] : EndsWith(vhost, s)}
    IN  IF fit = {} THEN 0
        ELSE wildcards[server][CHOOSE s \in fit : \A r \in fit \ {s} : Less(s, r)]

GetSSLCtxL(vhost, server) ==
    LET name == IF vhost = <<>> THEN defaultVhost[server] ELSE vhost
    IN  IF name = <<>> THEN emptyCtx[server]
        ELSE IF name \in DOMAIN ctxs[server] THEN ctxs[server][name] ELSE 0

\* mutant: wildcards first
GetSSLCtxWild(vhost, server) ==
    LET ret == GetSSLCtxWildcards(vhost, server)
    IN  IF ret # 0 THEN ret ELSE GetSSLCtxL(vhost, server)

GetSSLCtx(vhost, server) ==
    LET ret == GetSSLCtxL(vhost, server)
    IN  IF ret # 0 THEN ret ELSE GetSSLCtxWildcards(vhost, server)

\* The server name callback of a handshake.
FindCertificate(host) ==
    LET ctx == IF host = <<>> THEN 0 ELSE GetSSLCtx(host, TRUE)
    IN  /\ found' = [host |-> host, server |-> TRUE,
                     ctx |-> IF ctx # 0 THEN ctx ELSE GetSSLCtx(<<>>, TRUE)]
        /\ UNCHANGED <<emptyCtx, ctxs, wildcards, defaultVhost, loads>>

\* A client begins with the context without a name, whatever was loaded.
MakeSSL == /\ found' = [host |-> <<>>, server |-> FALSE, ctx |-> emptyCtx[FALSE]]
           /\ UNCHANGED <<emptyCtx, ctxs, wildcards, defaultVhost, loads>>

Next == \/ \E vhost \in CertNames, server, isDefault \in BOOLEAN :
              Load(vhost, server, isDefault)
        \/ \E host \in Hosts : FindCertificate(host)
        \/ MakeSSL

Spec == Init /\ [][Next]_sslVars

-----------------------------------------------------------------------------
Newest(name, server) ==
    LET at == {i \in 1..Len(loads) : loads[i] = [name |-> name, server |-> server]}
    IN  IF at = {} THEN 0 ELSE CHOOSE i \in at : \A j \in at : j <= i
Covers(name, host) == name = host \/ (Wild(name) /\ EndsWith(host, Tail(name)))

\* A handshake is never left without a context, nor given one of the other mode or one
\* that a later load of the same name has replaced.  A host gets the certificate of
\* its own name if there is one, a wildcard that covers it if there is one, and else
\* the default: a certificate of another name only if none covers the host.
ContextsRight ==
    found.ctx # -1 =>
        LET given   == loads[found.ctx]
            covers  == {i \in 1..Len(loads) : loads[i].server /\ loads[i].name # <<>>
                                              /\ Covers(loads[i].name, found.host)}
        IN  /\ found.ctx # 0 /\ given.server = found.server
            /\ found.ctx = Newest(given.name, given.server)
            /\ found.server /\ found.host # <<>> /\ Newest(found.host, TRUE) # 0
                  => given.name = found.host
            /\ found.server /\ covers # {} => found.ctx \in covers
            /\ found.server /\ covers = {} /\ defaultVhost[TRUE] # <<>>
                  => given.name = defaultVhost[TRUE]
=============================================================================
