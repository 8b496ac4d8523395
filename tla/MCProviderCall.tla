--------------------------- MODULE MCProviderCall ---------------------------
EXTENDS ProviderCall
==============================================================================
