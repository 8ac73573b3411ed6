------------------------------- MODULE MCCalcApp ------------------------------
EXTENDS CalcApp, SampleLanguage
===============================================================================
