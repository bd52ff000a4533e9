---------------------------- MODULE MCAttributes ----------------------------
(* Attributes on a file, a link that leads nowhere, and a link to it. *)
EXTENDS Attributes
CONSTANTS file, dangling, toLink, gone

MCPath == {file, dangling, toLink, gone}
MCFileAt == [p \in MCPath |-> CASE p = file -> 1 [] p = dangling -> 2
                                [] p = toLink -> 3 [] OTHER -> 0]
MCLinkTo == <<file, gone, dangling>>
MCFirstType == <<"reg", "lnk", "lnk">>
MCNameLen == <<2, 1>>
=============================================================================
