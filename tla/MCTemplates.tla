----------------------------- MODULE MCTemplates -----------------------------
EXTENDS Templates

MCAtoms == {<<"a">>, <<"b">>, <<"1">>, <<"../", "a">>}
MCInfixes == {"*", "-", "in"}

\* What closes what; space; the values of attributes; expressions alone.
MCStructure == {"x", "<b>", "</b>", "<p>", "{{#if}}", "{{/if}}", "{{#a}}", "{{else}}", "{{#partial}}", "{{/partial}}"}
MCSpace == {"x", " ", "newline", "{{!}}", "<b>", "</b>", "<pre>", "</pre>", "{{#if}}", "{{/if}}"}
MCValues == {"x", " ", "<b c='", "'>", "</b>", "<br>", "{{v}}", "{{^a}}", "{{#a}}", "{{/}}", "{{elseif}}", "{{else}}"}
MCAlphabets == {MCStructure, MCSpace, MCValues, {}}
=============================================================================
