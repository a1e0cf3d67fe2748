----------------------------- MODULE Templates ------------------------------
(***************************************************************************)
(* Mission templates (templates/template-substitution.ts).  A field of a   *)
(* template's waypoint is a number or the name of a parameter: there       *)
(* "${name}" stands, as in the built-in templates.  A parameter has a      *)
(* number, or a text: one that is no number, or one that holds a           *)
(* placeholder itself.                                                     *)
(***************************************************************************)
EXTENDS Integers, Sequences, FiniteSets

NoValue  == "undefined"  \* a parameter that was not supplied
BadText  == "text"       \* Number(...) of it is NaN
Dangling == "${other}"   \* a text with a placeholder in it

FIELDS == {"seq", "lat", "lon", "altitude", "speed", "gimbalAngle", "loiterTime"}

(* A field: [param, value], param = NoValue when it is a number. *)
literal(n)     == [param |-> NoValue, value |-> n]
placeholder(p) == [param |-> p, value |-> 0]

collectPlaceholders(t) ==
  ({t.name} \cup {t.waypoints[i][f].param : i \in 1..Len(t.waypoints), f \in FIELDS})
    \ {NoValue}

requiredParameters(t) == t.requiredParams \cup collectPlaceholders(t)

missingParameters(t, params) == {p \in requiredParameters(t) : params[p].text = NoValue}

(* After one pass of replacements a placeholder that was a value stays.      *)
unresolvedPlaceholders(t, params) ==
  {p \in collectPlaceholders(t) : params[p].text = Dangling}

(* resolveNumeric: a number, or none at all (NaN). *)
isNumeric(field, params) == field.param # NoValue => params[field.param].text = ""
resolveNumeric(field, params) ==
  IF field.param = NoValue THEN field.value ELSE params[field.param].number

allNumeric(t, params) ==
  \A i \in 1..Len(t.waypoints), f \in FIELDS : isNumeric(t.waypoints[i][f], params)

resolveWaypoints(t, params) ==
  [i \in 1..Len(t.waypoints) |->
     [f \in FIELDS |-> resolveNumeric(t.waypoints[i][f], params)]]

(* Mutant: a placeholder left over does not matter. *)
instantiatesUnchecked(t, params) == missingParameters(t, params) = {}

(* instantiateTemplate yields a mission.                                     *)
instantiates(t, params) ==
  missingParameters(t, params) = {} /\ unresolvedPlaceholders(t, params) = {}
=============================================================================
