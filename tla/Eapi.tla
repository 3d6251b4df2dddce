-------------------------------- MODULE Eapi --------------------------------
(***************************************************************************)
(* The versions of the format of packages and profiles (eapi.c): the       *)
(* numbers of the enumeration CPEapi.                                      *)
(***************************************************************************)
EXTENDS Integers, Sequences

EapiTexts == <<"0", "1", "2", "3", "4", "5">>
LatestEapi == Len(EapiTexts) - 1
UnknownEapi == -1

\* cp_eapi_parse, of a text without the blanks around it.
EapiParse(text) ==
    IF \E i \in DOMAIN EapiTexts : EapiTexts[i] = text
    THEN (CHOOSE i \in DOMAIN EapiTexts : EapiTexts[i] = text) - 1
    ELSE UnknownEapi

EapiCheck(eapi) == eapi # UnknownEapi

HasSlotDeps(eapi) == eapi >= 1
HasUseDeps(eapi) == eapi >= 2
=============================================================================
