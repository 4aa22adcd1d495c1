----------------------------- MODULE MCReading -----------------------------
EXTENDS Reading

CONSTANTS main, fe, fe1a

\* fe1a abbreviates the first commit; fe begins its object id, too short for one.
MCHex == {fe1a}
MCPrefix == {<<fe1a, 1>>, <<fe, 1>>}

\* The branch has a name that is an abbreviation of the first commit.
MCHexBranch == {fe1a, fe}
=============================================================================
