---------------------------- MODULE DeviceFilters ----------------------------
(***************************************************************************)
(* The filters of a device (NETVDevice): a message that comes in is marked *)
(* with the filter it hits under a mask.                                   *)
(***************************************************************************)
EXTENDS Integers, Sequences

CONSTANTS
    Masks, Filters, Received, \* records of bytes: priority, type, cmd, dest
    MaxEntries                \* bound of the model

DeviceFiltersAssumption == MaxEntries \in Nat

VARIABLES m_masks, m_filters

vars == <<m_masks, m_filters>>

\* The 26 bits that are compared; two of them are for the priority.
Value(m) == (m.priority % 4) * 2^24 + m.type * 2^16 + m.cmd * 2^8 + m.dest

Bit(n, b) == (n \div 2^b) % 2

\* No bit of the mask differs.
NoDifference(m, mask, filter) ==
    \A b \in 0 .. 25 : Bit(Value(mask), b) = 1 => Bit(Value(m), b) = Bit(Value(filter), b)

\* The filter at the index of the mask is the one that is compared; without such a
\* filter what lies behind the list is, which only a mask without bits does not mind.
Hit(m, i) ==
    IF i \in DOMAIN m_filters THEN NoDifference(m, m_masks[i], m_filters[i])
    ELSE Value(m_masks[i]) = 0

\* Mutation of applyFilters: filters are counted from 1.
applyFiltersFromOne(m) ==
    IF m_filters /= <<>> /\ \E i \in DOMAIN m_masks : Hit(m, i)
    THEN {Len(m_filters)} ELSE {-1}

\* applyFilters, which the PCAN drivers call for a message they read: the set of the
\* marks it may give.  For the mask i every filter j is a hit if the filter i is one
\* (m_filters[i] is read where j is meant), so the last filter gets the mark.  With
\* more masks than filters the read beyond the end of m_filters may be a hit as well.
applyFilters(m) ==
    LET hit    == \E i \in DOMAIN m_masks : Hit(m, i)
        beyond == \E i \in DOMAIN m_masks : i \notin DOMAIN m_filters
    IN IF m_filters = <<>> THEN {-1}
       ELSE IF hit THEN {Len(m_filters) - 1}
       ELSE IF beyond THEN {-1, Len(m_filters) - 1} ELSE {-1}

Init == m_masks = <<>> /\ m_filters = <<>>

addFilter(filter) ==
    /\ Len(m_filters) < MaxEntries
    /\ m_filters' = Append(m_filters, filter)
    /\ UNCHANGED m_masks

addMask(mask) ==
    /\ Len(m_masks) < MaxEntries
    /\ m_masks' = Append(m_masks, mask)
    /\ UNCHANGED m_filters

Next ==
    \/ \E filter \in Filters : addFilter(filter)
    \/ \E mask \in Masks : addMask(mask)

Spec == Init /\ [][Next]_vars

-----------------------------------------------------------------------------
\* The hits by the comment of NETV_FILTER: (filter & mask) ^ (message & mask) = 0.
Hits(m) ==
    {j \in DOMAIN m_filters : \E i \in DOMAIN m_masks : NoDifference(m, m_masks[i], m_filters[j])}

\* As long as there are no more masks than filters: a message that hits no filter is
\* never marked; with one filter, every message that hits it is.  (With more filters
\* the mark may be missing or name another.)
MarkedOnlyIfHit ==
    Len(m_masks) <= Len(m_filters) =>
      \A m \in Received :
        /\ Hits(m) = {} => applyFilters(m) = {-1}
        /\ Len(m_filters) = 1 /\ Hits(m) /= {} => applyFilters(m) = {0}

\* The mark of a message names a filter that the message hits.
HitDocumented ==
    \A m \in Received : \A mark \in applyFilters(m) :
        IF Hits(m) = {} THEN mark = -1 ELSE mark + 1 \in Hits(m)
=============================================================================
