------------------------------ MODULE CityList ------------------------------
(***************************************************************************)
(* buildCityList and filterUnknownRegions of main.go: which cities the     *)
(* daemon serves, and on which ports.  An entry of PIA_REGIONS is what     *)
(* strings.Split and strings.Cut make of it; region ids are taken up to    *)
(* case, as filterUnknownRegions compares them.  A step is one turn of one *)
(* of their loops.                                                         *)
(***************************************************************************)
EXTENDS Naturals, FiniteSets, Sequences, SequencesExt

CONSTANTS
  Regions,         \* region ids, up to case
  KnownRegions,    \* those in PIA's server list
  DefaultRegions,  \* the regions of defaultCities, in their order
  BasePort,        \* BASE_PORT
  Ports,           \* port numbers an entry may ask for
  NoPort, BadPort, \* what follows the ":" is missing, or not a number
  MaxEntries       \* bound: entries of PIA_REGIONS

ASSUME CityListAssumption ==
  /\ KnownRegions \subseteq Regions
  /\ BasePort \in Nat /\ Ports \subseteq Nat
  /\ Ports \cap {NoPort, BadPort} = {}
  /\ DefaultRegions \in Seq(Regions)
  /\ MaxEntries \in Nat

\* Entries that are empty or have no "=", and entries City=region[:port].
Blank == [text |-> "blank"]
Plain == [text |-> "plain"]
City(region, asked) == [text |-> "city", region |-> region, asked |-> asked]

Entry == {Blank, Plain}
  \cup {City(r, p) : r \in Regions, p \in Ports \cup {NoPort, BadPort}}

VARIABLES
  entries,   \* PIA_REGIONS, <<>> when it is not set
  next,      \* the entry, or the default city, buildCityList is at
  cities,    \* its out
  looked,    \* the cities filterUnknownRegions has looked at
  served     \* its out: the cities main starts a proxy for
listVars == <<entries, next, cities, looked, served>>

Accepts(e) == e.text = "city"
Asked(c)   == c.asked \in Ports

CityListInit ==
  /\ entries \in BoundedSeq(Entry, MaxEntries)
  /\ next = 1 /\ cities = <<>>
  /\ looked = 0 /\ served = <<>>

\* The port an entry gets.
EntryPort_ByEntry(e) ==
  IF Asked(e) THEN e.asked ELSE BasePort + next - 1
EntryPort(e) ==
  IF Asked(e) THEN e.asked ELSE BasePort + Len(cities)

AddEntry ==
  /\ entries # <<>> /\ next <= Len(entries)
  /\ LET e == entries[next] IN
       cities' = IF Accepts(e)
                   THEN Append(cities, [region |-> e.region, port |-> EntryPort(e),
                                        asked |-> e.asked])
                   ELSE cities
  /\ next' = next + 1
  /\ UNCHANGED <<entries, looked, served>>

AddDefault ==
  /\ entries = <<>> /\ next <= Len(DefaultRegions)
  /\ cities' = Append(cities, [region |-> DefaultRegions[next],
                               port |-> BasePort + next - 1, asked |-> NoPort])
  /\ next' = next + 1
  /\ UNCHANGED <<entries, looked, served>>

Built == next > Len(IF entries = <<>> THEN DefaultRegions ELSE entries)

FilterUnknownRegions ==
  /\ Built /\ looked < Len(cities)
  /\ looked' = looked + 1
  /\ LET c == cities[looked + 1] IN
       served' = IF c.region \in KnownRegions THEN Append(served, c) ELSE served
  /\ UNCHANGED <<entries, next, cities>>

CityListNext == AddEntry \/ AddDefault \/ FilterUnknownRegions

CityListSpec == CityListInit /\ [][CityListNext]_listVars

(***************************************************************************)
(* Properties.                                                             *)
(***************************************************************************)
Listed == Built /\ looked = Len(cities)

\* README.md:78 and :87: a served city has the port its entry asks for, else
\* BASE_PORT plus its place among the cities: ignored entries are not counted,
\* and a city PIA does not know keeps its place, so that no port depends on
\* PIA's list.  Two proxies therefore have the same port, and one of them no
\* listener, only when an entry asks for that port.
Place(n) == Cardinality({m \in 1 .. n - 1 : Accepts(entries[m])})

PortsAsDocumented ==
  Listed =>
    /\ \A n \in 1 .. Len(entries) :
         Accepts(entries[n]) /\ entries[n].region \in KnownRegions =>
           \E i \in 1 .. Len(served) :
             /\ served[i].region = entries[n].region
             /\ served[i].port = IF Asked(entries[n]) THEN entries[n].asked
                                                      ELSE BasePort + Place(n)
    /\ \A i, j \in 1 .. Len(served) :
         i # j /\ served[i].port = served[j].port => Asked(served[i]) \/ Asked(served[j])
=============================================================================
