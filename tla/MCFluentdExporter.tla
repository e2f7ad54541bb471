------------------------- MODULE MCFluentdExporter -------------------------
EXTENDS FluentdExporter, TLC
=============================================================================
