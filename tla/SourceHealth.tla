----------------------------- MODULE SourceHealth -----------------------------
(***************************************************************************)
(* Which address of a host a connection is given, and what failures and    *)
(* answers do to that choice (dns.rs: IpHealth and TrackingResolver;       *)
(* engine.rs: mark_source_dead, note_remote and the table of dead hosts;   *)
(* manager.rs: the order in which a task is given its sources).            *)
(*                                                                         *)
(* All tables are keyed by host and no operation touches two hosts: this   *)
(* is one host, shared by the concurrent attempts of all tasks.  Instants  *)
(* are kept as ages in ticks that stop growing at the TTL they are         *)
(* compared with, so that time has no end; an entry of that age counts as  *)
(* absent, as it does for every reader of the code.  A lock section is one *)
(* action; a lookup takes time and other attempts go on meanwhile.         *)
(***************************************************************************)
EXTENDS Integers, Sequences

CONSTANTS
    Ip,        \* the addresses of the host
    NoIp,      \* no address
    Answers,   \* the lists, without repetition, a DNS lookup may return
    Attempt,   \* slots for the attempts on this host alive at one time
    IpTtl,     \* IP_DEAD_TTL, in ticks
    DnsTtl,    \* DNS_TTL
    HostTtl    \* DEAD_HOST_TTL

ASSUME IpAssumption == NoIp \notin Ip
ASSUME TtlAssumption ==
    IpTtl \in Nat \ {0} /\ DnsTtl \in Nat \ {0} /\ HostTtl \in Nat \ {0}
ASSUME AnswersAssumption == Answers \subseteq Seq(Ip)
\* The resolver leaves out repetitions.
ASSUME DistinctAssumption ==
    \A list \in Answers : \A i, j \in DOMAIN list : list[i] = list[j] => i = j

VARIABLES
    ipLevel,     \* is there an IpHealth?  (not behind a proxy, not switched off)
    addrs,       \* HostState.addrs
    resolved,    \* age of HostState.resolved_at
    cursor,      \* HostState.cursor
    dead,        \* dead[a]: age of HostState.dead[a]
    lastServed,  \* HostState.last_served
    hostDead,    \* age of dead_hosts[host]
    pc,          \* pc[c]: the step of attempt c
    got,         \* got[c]: the list its resolution is about to pick from
    peer         \* peer[c]: the address its connection goes to; an idle
                 \* slot with an address is a connection in reqwest's pool

tableVars == <<addrs, resolved, cursor, dead, lastServed>>
vars == <<ipLevel, tableVars, hostDead, pc, got, peer>>

\* `due': a new task turns to this host first; `spare': only after another.
AttemptStep == {"idle", "due", "spare", "lookup", "pick", "open", "body", "failed"}

TypeOK ==
    /\ ipLevel \in BOOLEAN
    /\ addrs \in Answers \cup {<<>>}
    /\ resolved \in 0..DnsTtl
    /\ cursor \in Nat /\ (addrs # <<>> => cursor < Len(addrs))
    /\ dead \in [Ip -> 0..IpTtl]
    /\ lastServed \in Ip \cup {NoIp}
    /\ hostDead \in 0..HostTtl
    /\ pc \in [Attempt -> AttemptStep]
    /\ got \in [Attempt -> Answers \cup {<<>>}]
    /\ peer \in [Attempt -> Ip \cup {NoIp}]

Init ==
    /\ ipLevel \in BOOLEAN
    /\ addrs = <<>> /\ resolved = DnsTtl /\ cursor = 0
    /\ dead = [a \in Ip |-> IpTtl]
    /\ lastServed = NoIp
    /\ hostDead = HostTtl
    /\ pc = [c \in Attempt |-> "idle"]
    /\ got = [c \in Attempt |-> <<>>]
    /\ peer = [c \in Attempt |-> NoIp]

IsDead(age) == age < IpTtl

Go(c, from, to) == pc[c] \in from /\ pc' = [pc EXCEPT ![c] = to]

-----------------------------------------------------------------------------
(* worker: the order of a task's sources                                    *)

Recent(age) == age < HostTtl

\* A source of this host and one of another host, which may be on the list of
\* dead hosts itself: the stable sort puts the dead behind.
Ahead(listedFirst, otherDead) ==
    IF listedFirst THEN otherDead \/ ~Recent(hostDead)
                   ELSE otherDead /\ ~Recent(hostDead)

Start(c, listedFirst) ==
    /\ \E otherDead \in BOOLEAN :
          Go(c, {"idle"}, IF Ahead(listedFirst, otherDead) THEN "due" ELSE "spare")
    /\ UNCHANGED <<ipLevel, tableVars, hostDead, got, peer>>

-----------------------------------------------------------------------------
(* TrackingResolver::resolve and IpHealth::pick                            *)

\* A first attempt, or a later one of the same task.
Fresh == {"idle", "due", "spare"}

\* cached_addrs, under the lock: a list still fresh spares the lookup.
Resolve(c) ==
    /\ ipLevel
    /\ IF resolved < DnsTtl /\ addrs # <<>>
         THEN Go(c, Fresh, "pick") /\ got' = [got EXCEPT ![c] = addrs]
         ELSE Go(c, Fresh, "lookup") /\ UNCHANGED got
    /\ peer' = [peer EXCEPT ![c] = NoIp]
    /\ UNCHANGED <<ipLevel, tableVars, hostDead>>

LookedUp(c) ==
    /\ Go(c, {"lookup"}, "pick")
    /\ \E list \in Answers : got' = [got EXCEPT ![c] = list]
    /\ UNCHANGED <<ipLevel, tableVars, hostDead, peer>>

\* Mutant: the blacklist is never dropped.
Healed_Never(list) == dead

\* All addresses of the list dead: the whole blacklist of the host goes.
Healed(list) ==
    IF \A i \in DOMAIN list : IsDead(dead[list[i]])
      THEN [a \in Ip |-> IpTtl] ELSE dead

\* The index `off' places after the cursor, which a longer list may have
\* left.
Place(list, off) == ((cursor + off) % Len(list)) + 1

Usable(list, table) ==
    {off \in 0..Len(list) - 1 : ~IsDead(table[list[Place(list, off)]])}

\* Mutant: the cursor stays on the address it has just served.
Next_Stays(list, at) == at - 1

\* Mutant: the cursor runs off the end of the list.
Next_Unwrapped(list, at) == at

NextCursor(list, at) == at % Len(list)

\* The first usable address from the cursor on, in one lock section; the
\* list counts as resolved now, wherever it comes from.
Pick(c) ==
    LET list == got[c]
        table == Healed(list)
        usable == Usable(list, table)
        at == Place(list, CHOOSE o \in usable : \A p \in usable : o <= p)
    IN  /\ IF usable = {}
             THEN Go(c, {"pick"}, "failed") /\ UNCHANGED <<tableVars, peer>>
             ELSE /\ Go(c, {"pick"}, "open")
                  /\ addrs' = list /\ resolved' = 0
                  /\ dead' = table
                  /\ cursor' = NextCursor(list, at)
                  /\ lastServed' = list[at]
                  /\ peer' = [peer EXCEPT ![c] = list[at]]
        /\ got' = [got EXCEPT ![c] = <<>>]
        /\ UNCHANGED <<ipLevel, hostDead>>

-----------------------------------------------------------------------------
(* The attempt                                                             *)

\* Without an IpHealth reqwest resolves by itself.
Connect(c) ==
    /\ ~ipLevel
    /\ Go(c, Fresh, "open")
    /\ UNCHANGED <<ipLevel, tableVars, hostDead, got, peer>>

\* A pooled connection: no resolution.
Reuse(c) ==
    /\ peer[c] # NoIp
    /\ Go(c, Fresh, "open")
    /\ UNCHANGED <<ipLevel, tableVars, hostDead, got, peer>>

\* A good status: note_remote, hence mark_ok for the connection's own peer.
\* After a redirect the address noted is the landing host's, and nothing of
\* this host is cleared.
Answered(c) ==
    /\ Go(c, {"open"}, "body")
    /\ dead' \in {dead} \cup {[dead EXCEPT ![a] = IpTtl] : a \in {peer[c]} \cap Ip}
    /\ UNCHANGED <<ipLevel, addrs, resolved, cursor, lastServed, hostDead,
                   got, peer>>

\* All of the body: mark_host_alive; the connection goes to the pool.
Delivered(c) ==
    /\ Go(c, {"body"}, "idle")
    /\ hostDead' = HostTtl
    /\ UNCHANGED <<ipLevel, tableVars, got, peer>>

\* No lookup answer, no connection, no header in time or no byte of a body.
Fails(c) ==
    /\ Go(c, {"lookup", "open", "body"}, "failed")
    /\ peer' = [peer EXCEPT ![c] = NoIp]
    /\ UNCHANGED <<ipLevel, tableVars, hostDead, got>>

\* Mutant: the host goes on the list whether an address was blamed or not.
Blame_Both(c) ==
    /\ Go(c, {"failed"}, "idle")
    /\ dead' = IF ipLevel /\ lastServed # NoIp
                 THEN [dead EXCEPT ![lastServed] = 0] ELSE dead
    /\ hostDead' = 0
    /\ UNCHANGED <<ipLevel, addrs, resolved, cursor, lastServed, got, peer>>

\* mark_source_dead: the address served last, to whatever connection; the
\* host only if there is none (mark_failure returns false).
Blame(c) ==
    /\ Go(c, {"failed"}, "idle")
    /\ IF ipLevel /\ lastServed # NoIp
         THEN dead' = [dead EXCEPT ![lastServed] = 0] /\ UNCHANGED hostDead
         ELSE hostDead' = 0 /\ UNCHANGED dead
    /\ UNCHANGED <<ipLevel, addrs, resolved, cursor, lastServed, got, peer>>

\* Cancelled, broken off after some bytes, or answered by another source
\* without a verdict on this one.
Abandon(c) ==
    /\ Go(c, {"due", "spare", "lookup", "open", "body", "failed"}, "idle")
    /\ peer' = [peer EXCEPT ![c] = NoIp]
    /\ UNCHANGED <<ipLevel, tableVars, hostDead, got>>

Aged(age, ttl) == IF age < ttl THEN age + 1 ELSE ttl

Tick ==
    /\ resolved' = Aged(resolved, DnsTtl)
    /\ dead' = [a \in Ip |-> Aged(dead[a], IpTtl)]
    /\ hostDead' = Aged(hostDead, HostTtl)
    /\ UNCHANGED <<ipLevel, addrs, cursor, lastServed, pc, got, peer>>

Next ==
    \/ Tick
    \/ \E c \in Attempt :
          \/ \E listedFirst \in BOOLEAN : Start(c, listedFirst)
          \/ Resolve(c) \/ LookedUp(c) \/ Pick(c) \/ Connect(c) \/ Reuse(c)
          \/ Answered(c) \/ Delivered(c) \/ Fails(c) \/ Blame(c) \/ Abandon(c)

\* Time passes.
Spec == Init /\ [][Next]_vars /\ WF_vars(Tick)

-----------------------------------------------------------------------------
(* Properties                                                              *)

\* No attempt fails for want of an address: whatever has been blamed, by
\* whom, and however the lists shrink, a list with an address in it yields
\* one, and one of its own (pick).
AlwaysServed ==
    [][\A c \in Attempt : pc[c] = "pick" /\ pc'[c] # "pick" =>
          \/ got[c] = <<>>
          \/ pc'[c] = "open" /\ \E i \in DOMAIN got[c] : peer'[c] = got[c][i]]_vars

\* Two resolutions of one list in a row, of whichever attempts, give two
\* addresses, as long as another one is usable: a failing address is not
\* handed out again and again, nor is the load put on one (cursor).
NextIsAnother ==
    [][\A c \in Attempt :
          /\ pc[c] = "pick" /\ pc'[c] = "open" /\ got[c] = addrs
          /\ \E i \in DOMAIN addrs :
                addrs[i] # lastServed /\ ~IsDead(dead[addrs[i]])
          => lastServed' # lastServed]_vars

Failing == \E c \in Attempt : Blame(c)
Picking(list) == \E c \in Attempt : Pick(c) /\ got[c] = list

\* Once blame ends, every address of the list DNS keeps giving is served
\* again, and again: none is banned or passed over for ever, although blame
\* falls on addresses that had no part in a failure (IP_DEAD_TTL, cursor).
EveryAddressReturns ==
    \A list \in Answers :
        /\ <>[][~Failing]_vars
        /\ []<><<Picking(list)>>_vars
        /\ <>[][\A c \in Attempt : Pick(c) => got[c] = list]_vars
        => \A i \in DOMAIN list : []<>(lastServed = list[i])

\* A task whose list begins with this host is made to begin elsewhere only
\* for so long after a blame (dead_hosts, DEAD_HOST_TTL); and failures that
\* go on do not keep the host at the end once an address of it has been
\* served: from then on they are put down to addresses (mark_source_dead).
OrderReturns ==
    <>[][~Failing]_vars \/ <>(ipLevel /\ lastServed # NoIp) =>
        <>[][\A c \in Attempt : Start(c, TRUE) => pc'[c] = "due"]_vars
=============================================================================
