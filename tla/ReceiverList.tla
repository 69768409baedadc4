---------------------------- MODULE ReceiverList ----------------------------
(***************************************************************************)
(* A scan reports Wi-Fi Direct peers; those whose WFD information names a  *)
(* sink become the receivers of the panel.  A peer is a record: text and   *)
(* ies, what its details have after wfd_dev_info= and after wfd_ies=;      *)
(* address; name, "fire" for a Fire TV, "tab" for a name with a tab, which *)
(* bounded_text keeps.  The patched engine reads the bytes itself and puts *)
(* the text into the details, without the bytes.  Details that are too     *)
(* long lose whole bytes here; a byte cut in its middle is left out.       *)
(***************************************************************************)
EXTENDS Naturals, Sequences, FiniteSets, Functions

CONSTANTS MaxPeers,     \* MAX_DISCOVERY_PEERS
          MaxReceivers  \* MAX_RECEIVERS

ASSUME ReceiverAssumption == MaxPeers \in Nat /\ MaxReceivers \in Nat

NoInfo  == <<>>      \* no WFD device information
NoAddress == 0       \* text that receiver_address refuses

ElementLength(ies, o) == 256 * ies[o + 1] + ies[o + 2]

(* The element at offset o has its three byte header and all its contents. *)
Fits(ies, o) == o + 2 <= Len(ies) /\ o + 2 + ElementLength(ies, o) <= Len(ies)

(* Seeded fault: the id is not counted as part of the header. *)
NextElement_HeaderShort(ies, o) == o + 2 + ElementLength(ies, o)

NextElement(ies, o) == o + 3 + ElementLength(ies, o)

(* Elements that are gone past: the engine goes past a short element 0. *)
Passed(ies, o, engine) == ies[o] # 0 \/ (engine /\ ElementLength(ies, o) < 6)

(* The first six bytes of the first element 0, in pairs: for the controller *)
(* it must have six bytes, for the engine's parser at least six.            *)
ElementInfo(ies, engine) ==
  LET info[o \in Nat] ==
        IF ~Fits(ies, o) THEN NoInfo
        ELSE IF Passed(ies, o, engine) THEN info[NextElement(ies, o)]
        ELSE IF ~engine /\ ElementLength(ies, o) # 6 THEN NoInfo
        ELSE [i \in 1..3 |-> 256 * ies[o + 1 + 2 * i] + ies[o + 2 + 2 * i]]
  IN  info[1]

(* What the details of a peer with these bytes have, from the patched engine *)
(* and from one that passes the bytes on.                                    *)
EngineDetails(ies) == [text |-> ElementInfo(ies, TRUE), ies |-> <<>>]
RawDetails(ies)    == [text |-> NoInfo, ies |-> ies]

(* _wfd_device_info: the text is taken before the bytes. *)
DeviceInfo(details) ==
  IF details.text # NoInfo THEN details.text ELSE ElementInfo(details.ies, FALSE)

(* The two low bits of the information word: 1, 2 or 3 for a sink. *)
IsSink(p) == DeviceInfo(p) # NoInfo /\ DeviceInfo(p)[1] % 4 # 0

(* The positions of the peers that become records: sinks with a readable    *)
(* address, in the order of the scan.                                       *)
Records(peers) == {k \in 1..Len(peers) : IsSink(peers[k]) /\ peers[k].address # NoAddress}

(* The loop of _receivers_from_peers counts peers, then the records so far. *)
TooMany(peers) ==
  \E k \in 1..Len(peers) : k > MaxPeers \/ Cardinality({j \in Records(peers) : j < k}) >= MaxReceivers

(* Seeded fault: equal names are left in the order of the scan. *)
SortKey_NoId(r, q) == /\ r.name # q.name
                      /\ (r.name = "fire" \/ q.name # "fire")

(* The sort key of normalize_receivers: Fire TVs, then the name, then the  *)
(* address, whose order is that of the numbers here; a nameless peer gets a *)
(* name that ends with its address.                                        *)
Rank(r) == CASE r.name = "fire" -> 0 [] r.name = "" -> 1 [] OTHER -> 2

SortKey(r, q) == Rank(r) < Rank(q) \/ (Rank(r) = Rank(q) /\ r.address < q.address)

(* Python's sort is stable: a record goes after all that precede it. *)
Place(peers, k) ==
  Cardinality({j \in Records(peers) :
    SortKey(peers[j], peers[k]) \/ (~SortKey(peers[k], peers[j]) /\ j <= k)})

Sorted(peers) ==
  [n \in 1..Cardinality(Records(peers)) |-> peers[CHOOSE k \in Records(peers) : Place(peers, k) = n]]

(* Seeded fault: equal addresses are not refused. *)
Distinct_Names(peers) == Cardinality({peers[k] : k \in Records(peers)}) = Cardinality(Records(peers))

Distinct(peers) == Cardinality({peers[k].address : k \in Records(peers)}) = Cardinality(Records(peers))

(* _receivers_from_peers: one bad record and the whole list is refused. *)
Refused(peers) ==
  TooMany(peers) \/ ~Distinct(peers) \/ (\E k \in Records(peers) : peers[k].name = "tab")
-----------------------------------------------------------------------------
(* What the elements say, element by element: the reference for the offsets *)
(* of _wfd_device_info and of the engine's parser.                          *)
Bytes(e) == <<e.id, Len(e.bytes) \div 256, Len(e.bytes) % 256>> \o e.bytes

Encoded(elements) ==
  LET upto[n \in 0..Len(elements)] == IF n = 0 THEN <<>> ELSE upto[n - 1] \o Bytes(elements[n])
  IN  upto[Len(elements)]

Meant(elements, engine) ==
  LET zero == {i \in 1..Len(elements) :
                 elements[i].id = 0 /\ (engine => Len(elements[i].bytes) >= 6)}
      b    == elements[CHOOSE i \in zero : \A j \in zero : i <= j].bytes
  IN  IF zero = {} \/ (~engine /\ Len(b) # 6) THEN NoInfo
      ELSE [i \in 1..3 |-> 256 * b[2 * i - 1] + b[2 * i]]

(* Whatever elements a peer advertises, what is listed of it is the start   *)
(* of its first element 0: of raw bytes only if that has six bytes, through *)
(* the patched engine of the first that has six or more.  When the bytes    *)
(* end early nothing or the same is read, never bytes of another element or *)
(* past the end; and where the raw bytes tell something the engine's text   *)
(* tells the same.  (The converse is false: the engine's parser accepts     *)
(* what the controller's refuses.)                                          *)
InfoIsMeant(elements, cut) ==
  LET all    == Encoded(elements)
      bytes  == SubSeq(all, 1, IF cut < Len(all) THEN cut ELSE Len(all))
      raw    == DeviceInfo(RawDetails(bytes))
      listed == DeviceInfo(EngineDetails(bytes))
  IN  /\ raw \in {NoInfo, Meant(elements, FALSE)}
      /\ listed \in {NoInfo, Meant(elements, TRUE)}
      /\ cut >= Len(all) => raw = Meant(elements, FALSE) /\ listed = Meant(elements, TRUE)
      /\ raw # NoInfo => listed = raw

(* A listing shows every sink that can be addressed, each once, and nothing *)
(* else: the panel never offers a printer, nor loses a display silently.    *)
ListingComplete(peers) ==
  ~Refused(peers) =>
    LET shown == [n \in 1..Len(Sorted(peers)) |-> Sorted(peers)[n].address]
    IN  /\ IsInjective(shown)
        /\ Range(shown) = {peers[k].address : k \in {j \in 1..Len(peers) :
                           IsSink(peers[j]) /\ peers[j].address # NoAddress}}

(* The order in which a scan reports the peers does not show: watch_receivers *)
(* compares whole lists, a list that wanders would be told again and again.   *)
OrderIrrelevant(peers) ==
  \A i, j \in 1..Len(peers) :
    LET other == [peers EXCEPT ![i] = peers[j], ![j] = peers[i]]
    IN  ~Refused(peers) /\ ~Refused(other) => Sorted(peers) = Sorted(other)
=============================================================================
