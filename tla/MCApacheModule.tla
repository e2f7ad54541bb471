--------------------------- MODULE MCApacheModule ---------------------------
EXTENDS ApacheModule, TLC

CONSTANTS hosted, merged, local

Site(config, name, override) == [config |-> config, name |-> name, override |-> override]

\* A virtual host that is set up completely, one that disables the agent, a
\* location whose sections each give a part of the name, a location without
\* settings, and a directory whose .htaccess file names a context.
PlainSites == {Site("on", hosted, "none"), Site("off", hosted, "none"),
               Site("on", merged, "none"), Site("invalid", hosted, "none")}
AllSites == PlainSites \cup {Site("on", local, "off")}

AllNames == {hosted, merged, local}
Hosted == {hosted}

Symmetry == Permutations(Requests)
=============================================================================
