------------------------------ MODULE Ephemeris ------------------------------
(***************************************************************************)
(* The module solarSystem_py3.py: bodies are registered by name, and their *)
(* positions computed from trigonometric series in fundamental arguments.  *)
(* The arguments and the time they are for are globals of the module, and  *)
(* every body uses the same: a time within an hour of the last is answered *)
(* with the last, and a body that is registered late joins the arguments   *)
(* of the time that is current.                                            *)
(*                                                                         *)
(* A number is replaced by the time it was computed for.                   *)
(***************************************************************************)
EXTENDS Integers

CONSTANTS
  Names,       \* what a caller asks for, names of bodies and others
  ssoNameMap,  \* the name of the body, for the names that are known
  TermsOf,     \* fundamental arguments in the series of each body
  Times,       \* julian dates asked for
  JD0,         \* epoch of the arguments
  epsilon,     \* an hour: how far the last time may be from that asked
  Never        \* what has not been computed

Bodies == {ssoNameMap[n] : n \in DOMAIN ssoNameMap}
Terms  == UNION {TermsOf[b] : b \in Bodies}

ASSUME EphemerisSizes ==
  /\ DOMAIN ssoNameMap \subseteq Names
  /\ Bodies \subseteq DOMAIN TermsOf
  /\ JD0 \in Int /\ epsilon \in Nat /\ Never \notin Int
  /\ Times \subseteq Int /\ \A asked \in Times : asked > epsilon

VARIABLES
  jd,               \* the last time computed for, 0 at first
  t,                \* the time since JD0
  T,                \* the t that the centuries T were computed from
  activeArguments,  \* arguments that are kept up to date
  argument,         \* the t that the value of an argument is for
  activeSSO,        \* bodies that have been registered
  answer            \* the last call and what its caller got

clock   == <<jd, t, T>>
evars   == <<jd, t, T, activeArguments, argument, activeSSO, answer>>

Answer(call, asked, arguments, centuries) ==
  [call |-> call, asked |-> asked, arguments |-> arguments, centuries |-> centuries]

----------------------------------------------------------------------------

EphemerisInit ==
  /\ jd = 0 /\ t = 0 /\ T = Never
  /\ activeArguments = {}
  /\ argument = [e \in Terms |-> Never]
  /\ activeSSO = {}
  /\ answer = Answer("import", 0, {}, Never)

(* _updateFundamentalArgs(), for the arguments active and the time *)
Updated(active, time) == [e \in Terms |-> IF e \in active THEN time ELSE argument[e]]

(* _register() of a body that is new.  Mutant: its arguments wait for the  *)
(* next time to be asked.                                                  *)
RegisteredLazily(active) == argument
Registered(active)       == Updated(active, t)

(* The tables of a new body are read before anything is registered; one    *)
(* that cannot be opened is a SystemExit (openfile() of generic_py3.py).   *)
Ephemeris(name) ==
  \/ /\ name \notin DOMAIN ssoNameMap
     /\ answer' = Answer("NameError", 0, {}, Never)
     /\ UNCHANGED <<clock, activeArguments, argument, activeSSO>>
  \/ /\ name \in DOMAIN ssoNameMap /\ ssoNameMap[name] \notin activeSSO
     /\ answer' = Answer("SystemExit", 0, {}, Never)
     /\ UNCHANGED <<clock, activeArguments, argument, activeSSO>>
  \/ /\ name \in DOMAIN ssoNameMap
     /\ answer' = Answer("registered", 0, {}, Never)
     /\ LET body == ssoNameMap[name]
        IN  \/ body \in activeSSO /\ UNCHANGED <<activeArguments, argument, activeSSO>>
            \/ /\ body \notin activeSSO
               /\ activeArguments' = activeArguments \union TermsOf[body]
               /\ argument' = Registered(activeArguments')
               /\ activeSSO' = activeSSO \union {body}
     /\ UNCHANGED clock

(* __update_t() *)
Near(asked) == jd - epsilon <= asked /\ asked <= jd + epsilon

Update(asked) ==
  IF Near(asked)
    THEN UNCHANGED <<clock, argument>>
    ELSE /\ jd' = asked
         /\ t' = jd' - JD0
         /\ T' = t'
         /\ argument' = Updated(activeArguments, t')

(* _calculateRaDec() and _calculateDistanceFromSun(), for an object that   *)
(* Ephemeris() has returned: the series of a body have no other arguments. *)
Position(body, asked) ==
  /\ body \in activeSSO
  /\ Update(asked)
  /\ answer' = Answer("position", asked, {argument'[e] : e \in TermsOf[body]}, T')
  /\ UNCHANGED <<activeArguments, activeSSO>>

EphemerisNext ==
  \/ \E name \in Names : Ephemeris(name)
  \/ \E body \in Bodies, asked \in Times : Position(body, asked)

EphemerisSpec == EphemerisInit /\ [][EphemerisNext]_evars

----------------------------------------------------------------------------

EphemerisTypeOK ==
  /\ jd \in Int /\ t \in Int /\ T \in Int \union {Never}
  /\ activeSSO \subseteq Bodies
  /\ activeArguments = UNION {TermsOf[b] : b \in activeSSO}
  /\ argument \in [Terms -> Int \union {Never}]
  /\ answer \in [call : {"import", "NameError", "SystemExit", "registered", "position"}, asked : Int,
                 arguments : SUBSET (Int \union {Never}), centuries : Int \union {Never}]

(* A position is computed for one time, within an hour of the time asked:  *)
(* every argument of its series and the centuries are of that time,        *)
(* whichever bodies were registered, asked about and at what times before. *)
PositionOfOneTime ==
  answer.call = "position" =>
    /\ answer.centuries \in Int /\ answer.arguments \subseteq {answer.centuries}
    /\ LET computed == answer.centuries + JD0
       IN  answer.asked - epsilon <= computed /\ computed <= answer.asked + epsilon
==============================================================================
