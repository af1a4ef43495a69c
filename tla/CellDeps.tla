------------------------------ MODULE CellDeps ------------------------------
(***************************************************************************)
(* Cell deps and supported types (packages/ckb/src/utils/cell-dep.ts and   *)
(* the checks of ckb-tx.ts): a call that builds a transaction asks the     *)
(* registry of compatible tokens whether it may move the type, waits for   *)
(* its cells, asks again for the types of all cells it carries along, then *)
(* selects the contracts of the type it was called for and takes their     *)
(* cell deps from a document: the caller's, or one fetched from the API,   *)
(* the static host or GitHub, or else from the constants.                  *)
(*                                                                         *)
(* The registry is shared by all calls. It holds one list, the URL of the  *)
(* next refresh and the age of the last answer; a call that finds the list *)
(* old starts a refresh and does not wait for it.                          *)
(***************************************************************************)
EXTENDS Integers, FiniteSets

CONSTANTS
    Call,
    Token,           \* code hashes of compatible tokens
    StaticTokens,    \* COMPATIBLE_XUDT_TYPE_SCRIPTS
    Published,       \* lists of tokens: for every URL, one for each version
    Documents,       \* cell-deps.json, as it is served or was saved by a caller
    Old,             \* ticks after which the list is old
    MaxRefresh,      \* bound: requests for a list under way
    MaxSwitch,       \* bound: refreshes the users call
    MaxFlaps         \* bound: hosts going down, and answers without data

Contract == {"rgbpp", "btcTime", "xudt", "unique"}
Version == 0..1
Host == {"rgbpp", "github", "own"}
Url == {"static", "own"}
Type == Token \cup {"xudt"}

\* Calls that check one type and wait for its cells: a transfer or a leap to CKB, which carry
\* along what else the UTXOs hold; a batch transfer; a leap from CKB.
Kind == {"transfer", "batch", "leap"}

\* isMainnet and btcTestnetType; Signet is not combined with the mainnet.
Network == {[main |-> TRUE, btc |-> "testnet"], [main |-> FALSE, btc |-> "testnet"],
            [main |-> FALSE, btc |-> "signet"]}

ASSUME RegistryAssumption ==
    /\ StaticTokens \subseteq Token /\ StaticTokens # {}
    /\ Token \cap Contract = {} /\ IsFiniteSet(Token)
    /\ Published \in [Url -> [Version -> SUBSET Token]]
    /\ Documents \subseteq [has : SUBSET Contract, tokens : {"undefined", "some"},
                            listed : SUBSET Token]
    /\ {Old, MaxRefresh, MaxSwitch, MaxFlaps} \subseteq Nat

VARIABLES
    cache,        \* the registry's list, with its URL and version
    xudtUrl, age,
    refreshing,   \* requests for a list under way, by slot
    served,       \* the version of the list that each URL serves
    down,         \* hosts that do not answer
    calls,
    switches, flaps

registry == <<cache, xudtUrl, age, refreshing, switches>>
world == <<served, down, flaps>>
depsVars == <<cache, xudtUrl, age, refreshing, served, down, calls, switches, flaps>>

Nothing == [none |-> TRUE]
Idle == [pc |-> "idle"]
Empty == [url |-> "static", version |-> 0, tokens |-> {}]

DepsInit ==
    /\ cache = Empty /\ xudtUrl = "static" /\ age = Old
    /\ refreshing = [i \in 1..MaxRefresh |-> Nothing]
    /\ served = [u \in Url |-> 0] /\ down = {}
    /\ calls = [c \in Call |-> Idle]
    /\ switches = 0 /\ flaps = 0

-----------------------------------------------------------------------------
(* The registry *)

\* [bug] the default list is asked for at one host.
SourcesAlone(url, given) == IF url = "own" THEN {"own"} ELSE {"rgbpp"}

\* refreshCache races GitHub only for the static URL given by name, as getCompatibleTokens does.
Sources(url, given) ==
    IF url = "own" THEN {"own"} ELSE IF given THEN {"rgbpp", "github"} ELSE {"rgbpp"}

Free == {i \in DOMAIN refreshing : refreshing[i] = Nothing}

\* As many requests as one of the numbers says.
Request(numbers, url, given, by) ==
    \E slots \in SUBSET Free :
        /\ Cardinality(slots) \in numbers
        /\ refreshing' = [i \in DOMAIN refreshing |->
             IF i \in slots
             THEN [url |-> url, from |-> Sources(url, given), since |-> served[url], by |-> by]
             ELSE refreshing[i]]

\* refreshCache(url), called by a user: the URL is kept for the refreshes to come.
Refresh(url, given) ==
    /\ url = "own" => given
    /\ switches < MaxSwitch /\ switches' = switches + 1
    /\ xudtUrl' = url
    /\ Request({1}, url, given, "user")
    /\ UNCHANGED <<cache, age, calls, world>>

isOfflineMode(vendor) == vendor = Nothing

NeedsRefresh == cache.tokens = {} \/ age >= Old

\* getCompatibleTokens
Tokens(offline) ==
    IF offline \/ cache.tokens = {} THEN StaticTokens ELSE cache.tokens

\* Every question of a call starts a refresh of its own while the list is old.
AskRegistry(vendor, numbers) ==
    IF ~isOfflineMode(vendor) /\ NeedsRefresh
    THEN /\ Request(numbers, xudtUrl, TRUE, IF vendor = Nothing THEN "call" ELSE "vendor")
         /\ UNCHANGED <<cache, xudtUrl, age, switches>>
    ELSE UNCHANGED registry

\* One question for each cell of these types.
Questions(types) == IF types = {} THEN {0} ELSE Cardinality(types)..MaxRefresh

Settled(i) == refreshing' = [refreshing EXCEPT ![i] = Nothing]

\* The list replaces what the registry holds, also that of another URL or a newer one.
RefreshAnswer(i) ==
    /\ refreshing[i] # Nothing /\ ~(refreshing[i].from \subseteq down)
    /\ \E v \in refreshing[i].since..served[refreshing[i].url] :
        LET list == [url |-> refreshing[i].url, version |-> v,
                     tokens |-> Published[refreshing[i].url][v]]
        IN  cache' = list /\ age' = 0
    /\ Settled(i)
    /\ UNCHANGED <<xudtUrl, switches, calls, world>>

\* An answer without data
RefreshEmpty(i) ==
    /\ refreshing[i] # Nothing /\ ~(refreshing[i].from \subseteq down)
    /\ flaps < MaxFlaps /\ flaps' = flaps + 1
    /\ age' = 0 /\ Settled(i)
    /\ UNCHANGED <<cache, xudtUrl, switches, calls, served, down>>

\* The error is dropped; the next call tries again.
RefreshError(i) ==
    /\ refreshing[i] # Nothing /\ refreshing[i].from \subseteq down
    /\ Settled(i)
    /\ UNCHANGED <<cache, xudtUrl, age, switches, calls, world>>

TimePasses ==
    /\ age < Old /\ age' = age + 1
    /\ UNCHANGED <<cache, xudtUrl, refreshing, switches, calls, world>>

-----------------------------------------------------------------------------
(* The servers *)

Publish(url) ==
    /\ served[url] = 0 /\ Published[url][0] # Published[url][1]
    /\ served' = [served EXCEPT ![url] = 1]
    /\ UNCHANGED <<down, flaps, calls, registry>>

HostDown(h) ==
    /\ h \notin down /\ flaps < MaxFlaps
    /\ flaps' = flaps + 1 /\ down' = down \cup {h}
    /\ UNCHANGED <<served, calls, registry>>

HostUp(h) ==
    /\ h \in down /\ down' = down \ {h}
    /\ UNCHANGED <<served, flaps, calls, registry>>

-----------------------------------------------------------------------------
(* Cell deps *)

Dep(contract, net, from, index) ==
    [contract |-> contract, net |-> net, from |-> from, index |-> index]

\* The network of a lock script and of the constants' dep
NetworkOf(contract, net) ==
    IF net.main THEN "mainnet"
    ELSE IF contract \in {"rgbpp", "btcTime"} THEN net.btc ELSE "testnet"

\* The deployments of the constants; a lock's config cell is the second output of its own.
Deployment(network, contracts) ==
    {Dep(x, network, "constants", 0) : x \in contracts}
    \cup {Dep(x, network, "constants", 1) : x \in contracts \cap {"rgbpp", "btcTime"}}
Deployed == Contract \cup {"secp256k1", "cluster", "spore"}
MainnetInfo == Deployment("mainnet", Deployed)
TestnetInfo == Deployment("testnet", Deployed) \cup Deployment("signet", {"rgbpp", "btcTime"})

DefaultDep(contract, net) ==
    CHOOSE d \in IF net.main THEN MainnetInfo ELSE TestnetInfo :
        d.contract = contract /\ d.net = NetworkOf(contract, net) /\ d.index = 0

\* The deps of a document; xUDT and Unique on the mainnet are never taken from it.
CodeDep(contract, net, doc) ==
    IF doc = Nothing \/ contract \notin doc.has \/ (net.main /\ contract \in {"xudt", "unique"})
    THEN DefaultDep(contract, net)
    ELSE Dep(contract,
             IF contract \in {"rgbpp", "btcTime"} /\ net.btc = "signet" THEN "signet"
             ELSE IF net.main THEN "mainnet" ELSE "testnet",
             "document", 0)

\* [bug] the config cell of the constants, with the code of the document.
ConfigDepConstant(contract, net, doc) == Dep(contract, NetworkOf(contract, net), "constants", 1)

\* The config cell is the second output of the same deployment.
ConfigDep(contract, net, doc) == [CodeDep(contract, net, doc) EXCEPT !.index = 1]

\* A token that is not in the document gives an undefined dep, not an error.
TokenDep(token, doc) == Dep(token, "any", IF token \in doc.listed THEN "document" ELSE "undefined", 0)

\* fetchTypeIdCellDeps, with its document; throws without the tokens' part of it.
Throws(selected, doc) == selected.tokens # {} /\ (doc = Nothing \/ doc.tokens = "undefined")

TypeIdCellDeps(net, selected, doc) ==
    {CodeDep(x, net, doc) : x \in selected.contracts}
    \cup {ConfigDep(x, net, doc) : x \in selected.contracts \cap {"rgbpp", "btcTime"}}
    \cup {TokenDep(t, doc) : t \in selected.tokens}

-----------------------------------------------------------------------------
(* The calls *)

isUDTTypeSupported(type, offline) == type = "xudt" \/ type \in Tokens(offline)

LockOf == [transfer |-> {"rgbpp"}, batch |-> {"rgbpp"}, leap |-> {}]

\* The type of the call alone, whatever other types it carries along.
Selected(kind, asset) ==
    [contracts |-> LockOf[kind] \cup ({"xudt"} \cap {asset}), tokens |-> {asset} \ {"xudt"}]

\* What is selected is fixed before the document is there.
Built(selected, doc) ==
    IF Throws(selected, doc) THEN Idle ELSE [pc |-> "done", selected |-> selected, doc |-> doc]

Fetching(vendor, selected) ==
    IF vendor # Nothing THEN Built(selected, vendor) ELSE [pc |-> "api", selected |-> selected]

Step(c, to) == calls' = [calls EXCEPT ![c] = to]
Ready(c) == calls[c].pc \in {"idle", "done"}

StartBuild(c, kind, asset, vendor) ==
    /\ Ready(c)
    /\ AskRegistry(vendor, {IF asset = "xudt" THEN 0 ELSE 1})
    /\ Step(c, IF isUDTTypeSupported(asset, isOfflineMode(vendor))
               THEN [pc |-> "cells", kind |-> kind, asset |-> asset, vendor |-> vendor]
               ELSE Idle)
    /\ UNCHANGED world

\* The cells of the asset are there.
Cells(c) ==
    LET call == calls[c]
    IN  /\ call.pc = "cells" /\ call.kind # "transfer"
        /\ Step(c, Fetching(call.vendor, Selected(call.kind, call.asset)))
        /\ UNCHANGED <<registry, world>>

\* throwErrorWhenRgbppCellsInvalid for the cells of one lock, which have these types; the
\* list may be another one by now. "some" stops at the first type that is not supported.
CellsOfLock(c, types) ==
    LET call == calls[c]
        unknown == {type \in types : ~isUDTTypeSupported(type, isOfflineMode(call.vendor))}
    IN  /\ call.pc = "cells" /\ call.kind = "transfer"
        /\ \E asked \in SUBSET (types \ {"xudt"}) :
            /\ IF unknown = {} THEN asked = types \ {"xudt"}
               ELSE Cardinality(asked \cap unknown) = 1
            /\ AskRegistry(call.vendor, Questions(asked))
        /\ IF unknown = {} /\ call.asset \in types
           THEN Step(c, call) \/ Step(c, Fetching(call.vendor, Selected(call.kind, call.asset)))
           ELSE Step(c, Idle)
        /\ UNCHANGED world

\* buildBtcTimeCellsSpentTx, for time cells of these types: a token that the registry does
\* not know gets no dep.
Unlock(c, types, vendor) ==
    /\ Ready(c) /\ types # {}
    /\ AskRegistry(vendor, Questions(types))
    /\ Step(c, Fetching(vendor, [contracts |-> {"btcTime"} \cup ({"xudt"} \cap types),
                                 tokens |-> types \cap Tokens(isOfflineMode(vendor))]))
    /\ UNCHANGED world

Launch(c, vendor) ==
    /\ Ready(c)
    /\ Step(c, Fetching(vendor, [contracts |-> {"rgbpp", "unique", "xudt"}, tokens |-> {}]))
    /\ UNCHANGED <<registry, world>>

Fetched(c, doc) == Step(c, Built(calls[c].selected, doc))

\* fetchCellDepsJson: an answer with data, or the static hosts are asked.
ApiAnswer(c) ==
    /\ calls[c].pc = "api"
    /\ \/ "rgbpp" \notin down /\ \E doc \in Documents : Fetched(c, doc)
       \/ Step(c, [calls[c] EXCEPT !.pc = "static"])
    /\ UNCHANGED <<registry, world>>

\* fetchCellDepsJsonFromStaticSource: either host's answer, or nothing.
StaticAnswer(c) ==
    /\ calls[c].pc = "static"
    /\ IF {"rgbpp", "github"} \subseteq down THEN Fetched(c, Nothing)
       ELSE \E doc \in Documents : Fetched(c, doc)
    /\ UNCHANGED <<registry, world>>

-----------------------------------------------------------------------------
DepsNext ==
    \/ \E url \in Url, given \in BOOLEAN : Refresh(url, given)
    \/ \E i \in 1..MaxRefresh : RefreshAnswer(i) \/ RefreshEmpty(i) \/ RefreshError(i)
    \/ TimePasses
    \/ \E url \in Url : Publish(url)
    \/ \E h \in Host : HostDown(h) \/ HostUp(h)
    \/ \E c \in Call :
        \/ Cells(c) \/ ApiAnswer(c) \/ StaticAnswer(c)
        \/ \E types \in SUBSET Type : CellsOfLock(c, types)
        \/ \E vendor \in Documents \cup {Nothing} :
            \/ \E kind \in Kind, asset \in Type : StartBuild(c, kind, asset, vendor)
            \/ \E types \in SUBSET Type : Unlock(c, types, vendor)
            \/ Launch(c, vendor)

\* Calls with a caller's document are made again and again, time goes on, requests end, and
\* GitHub and a user's own host come back; the static host may not.
Fairness ==
    /\ WF_depsVars(TimePasses)
    /\ \A i \in 1..MaxRefresh : WF_depsVars(RefreshAnswer(i) \/ RefreshEmpty(i) \/ RefreshError(i))
    /\ \A h \in Host \ {"rgbpp"} : WF_depsVars(HostUp(h))
    /\ \A c \in Call :
        /\ WF_depsVars(\/ Cells(c) \/ ApiAnswer(c) \/ StaticAnswer(c)
                       \/ \E types \in SUBSET Type : CellsOfLock(c, types))
        /\ SF_depsVars(\E token \in Token, doc \in Documents :
                        StartBuild(c, "transfer", token, doc))

DepsSpec == DepsInit /\ [][DepsNext]_depsVars
FairSpec == DepsSpec /\ Fairness

-----------------------------------------------------------------------------
(* Properties *)

\* The deps a transaction gets are those of the network its lock scripts are of, and the
\* code and the config of a contract are of one deployment.
OneDeployment ==
    \A c \in Call, net \in Network : calls[c].pc = "done" =>
        LET deps == TypeIdCellDeps(net, calls[c].selected, calls[c].doc)
        IN  \A d \in {x \in deps : x.contract \in Contract} :
                /\ d.net = NetworkOf(d.contract, net)
                /\ d.contract \in {"rgbpp", "btcTime"} => [d EXCEPT !.index = 1 - @] \in deps

\* However answers overtake each other and the static host fails, the registry ends with
\* the newest list of the URL that was named last.
ListSettles == <>[](cache.url = xudtUrl /\ cache.version = served[xudtUrl])

\* utils/rgbpp.ts says that nothing is fetched from the network when a caller gives its own
\* cell deps.
OfflineFetchesNothing ==
    \A i \in DOMAIN refreshing : refreshing[i] # Nothing => refreshing[i].by # "vendor"
=============================================================================
